---- MODULE Spec2Model ----
(***************************************************************************)
(* Session middleware of @innovatedev/fresh-session: the function returned *)
(* by createSessionMiddleware (src/unnamed/part_005, lines 175-383), the   *)
(* storage it talks to, and the handler API it installs on ctx.state       *)
(* (flash, hasFlash, login, logout, session, sessionId).                   *)
(*                                                                         *)
(* A request goes idle -> hydrate -> handler -> post -> done.  The handler *)
(* (ctx.next()) is an arbitrary sequence of calls of the API.  Session IDs *)
(* are numbers: crypto.randomUUID() returns the next number never issued.  *)
(***************************************************************************)
EXTENDS Integers, FiniteSets, Sequences, TLC

\* ---------------------------------------------------------------- bounds

\* Session IDs crypto.randomUUID() issues in one behaviour.
MaxIds == 2
\* Calls of the session API a handler makes in one request.
MaxCalls == 2
\* Records in the store while a request that brings no live session arrives.
MaxSessions == 1

\* ------------------------------------------------------- values in flight

Requests == {"r1"}
DataKeys == {"a"}
FlashKeys == {"k"}
Vals == {"x", "y"}
Users == {"alice"}
UserAgents == {"Chrome", "Firefox"}
Ips == {"1.2.3.4", "5.6.7.8"}

\* JavaScript's undefined, for a string-valued slot.
Undef == "undefined"
\* No session ID: the cookie is absent (or empty), `sessionId = undefined`.
NoId == 0
\* A cookie value that was never issued ("non-existent-session-id").
BogusId == 101
\* A value a handler assigns to ctx.state.sessionId ("unsafe-login-id").
UnsafeId == 102
\* The key of a record written by an earlier version of the middleware.
OldId == 103

EmptyMap == [k \in {} |-> Undef]

\* m with key k set to v (obj[k] = v).
Put(m, k, v) == [x \in (DOMAIN m) \cup {k} |-> IF x = k THEN v ELSE m[x]]

VARIABLES
  store,            \* the storage backend: session ID -> stored value
  nextId,           \* the next ID crypto.randomUUID() returns
  trackUserAgent,   \* options.trackUserAgent
  trackIp,          \* options.trackIp
  resolvers,        \* whether options.resolveUser and options.store.resolveUser exist
  sharing,          \* whether the store keeps and returns the caller's objects
  tokenOptions,     \* options.verifyToken, options.tokenHeader, options.tokenPrefix
  now,              \* Date.now()
  cookieOptions,    \* options.cookie and options.expiry
  ipHeader,         \* options.trackIp.header when trackIp is an object naming one
  req,              \* per request: the closure's locals and ctx.state
  hist,             \* what the latest completed request left, by its session ID
  loggedInFrom      \* the IDs that requests calling login() started with

vars == <<store, nextId, trackUserAgent, trackIp, resolvers, sharing, tokenOptions, now, cookieOptions, ipHeader, req, hist, loggedInFrom>>

\* ---------------------------------------------------------------- storage

\* MemorySessionStorage.get: the value under the key, or undefined.
StoreHas(s, id) == id \in DOMAIN s

StoreGet(s, id) == s[id]

\* A store whose set() loses the value.
StoreSet_Lost(s, id, value) == s

\* A store whose set() leaves a value that is already there (first write wins).
StoreSet_Kept(s, id, value) ==
  [x \in (DOMAIN s) \cup {id} |-> IF x \in DOMAIN s THEN s[x] ELSE value]

\* MemorySessionStorage.set: the value replaces whatever was there.
StoreSet(s, id, value) == [x \in (DOMAIN s) \cup {id} |-> IF x = id THEN value ELSE s[x]]

\* MemorySessionStorage.delete.
StoreDelete(s, id) == [x \in (DOMAIN s) \ {id} |-> s[x]]

\* ------------------------------------------------------ middleware helpers

\* What the object the store handed out is to the working record: the record
\* itself (line 241), its data (line 249), or no part of it.
Shared(byReference, current, legacy) ==
  IF ~byReference THEN "none"
  ELSE IF current THEN "record" ELSE IF legacy THEN "data" ELSE "none"

\* A store of any kind that holds the object the handler writes to.
WrittenThrough_Always(s, shared, id, data) ==
  IF StoreHas(s, id) /\ "data" \in DOMAIN s[id] THEN [s EXCEPT ![id].data = data]
  ELSE IF StoreHas(s, id) THEN [s EXCEPT ![id] = data]
  ELSE s

\* The store once the handler has written ctx.state.session: a store that
\* handed out its own object (MemorySessionStorage.get, line 30) holds the
\* object the handler wrote to.
WrittenThrough(s, shared, id, data) ==
  IF shared = "record" /\ StoreHas(s, id) THEN [s EXCEPT ![id].data = data]
  ELSE IF shared = "data" /\ StoreHas(s, id) THEN [s EXCEPT ![id] = data]
  ELSE s

\* let storedSession = { data: {}, flash: {}, lastSeenAt, ua, ip }: the empty
\* working record a request starts from, and the one logout() resets to.
NewStoredSession(ua, ip) ==
  [data |-> EmptyMap, flash |-> EmptyMap, userId |-> Undef, lastSeenAt |-> now,
   ua |-> ua, ip |-> ip]

\* typeof raw === "object" && "data" in raw && "flash" in raw
IsCurrentShape(raw) == "data" \in DOMAIN raw /\ "flash" \in DOMAIN raw

\* A validation that never finds a session invalid.
SessionInvalid_Never(track, stored, currentUa, currentIp) == FALSE

\* A validation that also compares the stored IP with the request's.
SessionInvalid_WithIp(track, stored, currentUa, currentIp) ==
  track /\ (stored.ua # currentUa \/ stored.ip # currentIp)

\* Validation: options.trackUserAgent && storedSession.ua !== currentUa.
\* The stored and the current IP are at hand and are not compared.
SessionInvalid(track, stored, currentUa, currentIp) == track /\ stored.ua # currentUa

\* A migration that starts the session empty.
Migrated_Dropped(raw, ua, ip) == NewStoredSession(ua, ip)

\* A migration that takes the identity from the flat value's userId key.
Migrated_Identity(raw, ua, ip) ==
  [NewStoredSession(ua, ip) EXCEPT !.data = raw,
     !.userId = IF "userId" \in DOMAIN raw THEN raw.userId ELSE Undef]

\* Migration: the flat value becomes the data of the empty working record.
Migrated(raw, ua, ip) == [NewStoredSession(ua, ip) EXCEPT !.data = raw]

\* A lookup that keeps the client's value whether or not a record was found.
AssignedId_Adopted(keep, cookieId, fresh) == cookieId

\* The ID the request works under after the lookup: the cookie's when its
\* record was found and is valid, else a new one (if (!sessionId) ...).
AssignedId(keep, cookieId, fresh) == IF keep THEN cookieId ELSE fresh

\* A rotation that leaves the old record in the store.
RotateDelete_Kept(s, initialSessionId) == s

\* rotateSession: await options.store.delete(initialSessionId)
RotateDelete(s, initialSessionId) == StoreDelete(s, initialSessionId)

\* A logout that leaves the record in the store.
LogoutDelete_Kept(s, sessionId) == s

\* logout: if (sessionId) await options.store.delete(sessionId)
LogoutDelete(s, sessionId) == IF sessionId # NoId THEN StoreDelete(s, sessionId) ELSE s

\* ctx.state.sessionId !== sessionId
RotationRequested(ctxSessionId, sessionId) == ctxSessionId # sessionId

\* A save that trusts the value the handler assigned.
SavedId_Adopted(rotate, sessionId, ctxSessionId, fresh) ==
  IF rotate THEN ctxSessionId ELSE sessionId

\* The ID the record is saved under: a new one when the handler changed
\* ctx.state.sessionId, never the handler's value.
SavedId(rotate, sessionId, ctxSessionId, fresh) == IF rotate THEN fresh ELSE sessionId

\* flash(key): the stored value, or undefined.
FlashValue(flash, key) == IF key \in DOMAIN flash THEN flash[key] ELSE Undef

\* A read that takes the entry out of storedSession.flash at once.
FlashAfterRead_Removed(flash, key) == [k \in (DOMAIN flash) \ {key} |-> flash[k]]

\* flash(key) leaves storedSession.flash as it is: the read is only noted.
FlashAfterRead(flash, key) == flash

\* flash(key) marks the key consumed only when it is in the stored flash.
FlashConsumed(flash, consumed, key) ==
  IF key \in DOMAIN flash THEN consumed \cup {key} ELSE consumed

\* flash(key, value): newFlash[key] = value
FlashStaged(newFlash, key, value) == Put(newFlash, key, value)

\* A hasFlash that looks at the stored entries only.
HasFlash_StoredOnly(flash, newFlash, key) == key \in DOMAIN flash

\* hasFlash(key): key in storedSession.flash || key in newFlash
HasFlash(flash, newFlash, key) == key \in DOMAIN flash \/ key \in DOMAIN newFlash

\* A cleanup that keeps the entries that were read.
PerformFlashCleanup_KeepRead(flash, consumed, newFlash) ==
  [k \in (DOMAIN flash) \cup (DOMAIN newFlash) |->
     IF k \in DOMAIN newFlash THEN newFlash[k] ELSE flash[k]]

\* A cleanup that lets a surviving old entry win over a staged one.
PerformFlashCleanup_OldFirst(flash, consumed, newFlash) ==
  [k \in ((DOMAIN flash) \ consumed) \cup (DOMAIN newFlash) |->
     IF k \in (DOMAIN flash) \ consumed THEN flash[k] ELSE newFlash[k]]

\* performFlashCleanup: unconsumed old entries, then the new ones over them.
PerformFlashCleanup(flash, consumed, newFlash) ==
  [k \in ((DOMAIN flash) \ consumed) \cup (DOMAIN newFlash) |->
     IF k \in DOMAIN newFlash THEN newFlash[k] ELSE flash[k]]

\* A login that lays the payload over the data already there.
LoggedIn_Merged(stored, userId, data) ==
  [stored EXCEPT !.userId = userId,
     !.data = [k \in (DOMAIN stored.data) \cup (DOMAIN data) |->
                 IF k \in DOMAIN data THEN data[k] ELSE stored.data[k]]]

\* login: storedSession.userId = userId; storedSession.data = data || {}
LoggedIn(stored, userId, data) == [stored EXCEPT !.userId = userId, !.data = data]

\* if (options.trackUserAgent) storedSession.ua = currentUa; same for the IP.
Tracked(stored, trackUa, ua, trackAddr, ip) ==
  [stored EXCEPT !.lastSeenAt = now,
     !.ua = IF trackUa THEN ua ELSE @, !.ip = IF trackAddr THEN ip ELSE @]

\* ------------------------------------------------------------ the request

\* No resolver was called.
NotResolved == [userId |-> Undef, data |-> EmptyMap, called |-> FALSE]

\* A slot with no request in it.  The fields up to setCookie are the closure's
\* locals, ctx.state and the response; the rest record what the handler saw
\* and did (live, presented: the stored value under the cookie's ID when the
\* request arrived; found: how the lookup ended; preFlash: storedSession.flash
\* when the handler was entered; op, key, ret: its latest call and what it
\* returned; written: the keys it wrote to ctx.state.session; reads: how often
\* it called flash(key), by key; got: the keys flash(key) returned a value
\* for; gotStaged: those of them the previous request had staged; assigned:
\* the value it gave ctx.state.sessionId; loggedOutFrom: the ID the latest
\* logout() found current; loginUser, loginData, loginLast: the arguments of
\* the latest login() and whether it is still the latest call; sets, setKey:
\* the calls of store.set and the key of the latest; user, userId, userIdSet:
\* ctx.state.user, ctx.state.userId and whether the latter was assigned;
\* invoked, result: the resolver called and what it returned; shared: the part
\* of the working record that is the store's own object; issuedFrom: the first
\* ID not yet issued when the lookup ran; error: what the middleware call
\* rejected with; nextCalled: whether ctx.next() was invoked; setAt: the place
\* of its store.set among those of the requests in flight; storeOps: the
\* operations of the store it invoked; headerName, headerValue: the token
\* header it carried; token, verifyCalled: what verifyToken was called with, if
\* it was; stateless: whether it was served without a session; responseCookie:
\* the cookie set on the response, with its attributes; userAgent, forwarded,
\* remoteAddr: the User-Agent header, the configured address header and the
\* connection's hostname as far as the middleware reads them; savedAt: the time
\* of the save; ops: the store operations that completed, the invocation and
\* return of ctx.next() and the setCookie, in order; detached: how far a logout() the handler
\* did not await has come, detachedId: the ID it deletes; overlapped: whether a
\* store operation was issued while another was in flight; getAt: how many
\* store.set of the requests in flight preceded its lookup; resolvedWith: the
\* arguments the resolver was called with; prev: what the
\* last response on the presented ID left).
IdleRequest ==
  [pc |-> "idle", cookie |-> NoId, currentUa |-> Undef, currentIp |-> Undef,
   sessionId |-> NoId, initialSessionId |-> NoId,
   storedSession |-> [NewStoredSession(Undef, Undef) EXCEPT !.lastSeenAt = 0],
   ctxSessionId |-> NoId, ctxSession |-> EmptyMap, linked |-> TRUE,
   consumedFlash |-> {}, newFlash |-> EmptyMap,
   setCookie |-> NoId,
   live |-> FALSE, presented |-> EmptyMap,
   found |-> "none", preFlash |-> EmptyMap, calls |-> 0,
   op |-> "none", key |-> Undef, ret |-> Undef, written |-> {}, assigned |-> NoId,
   reads |-> [k \in FlashKeys |-> 0], got |-> {}, gotStaged |-> {},
   loggedOutFrom |-> NoId, loginUser |-> Undef, loginData |-> EmptyMap,
   loginLast |-> FALSE, sets |-> 0, setKey |-> NoId,
   user |-> Undef, userId |-> Undef, userIdSet |-> FALSE,
   invoked |-> "none", result |-> Undef,
   calledLogin |-> FALSE, calledLogout |-> FALSE, rotated |-> FALSE,
   shared |-> "none", issuedFrom |-> NoId, error |-> "none", nextCalled |-> FALSE,
   setAt |-> 0, storeOps |-> {}, responseCookie |-> EmptyMap,
   headerName |-> Undef, headerValue |-> <<>>, token |-> <<>>,
   verifyCalled |-> FALSE, stateless |-> FALSE,
   userAgent |-> Undef, forwarded |-> Undef, remoteAddr |-> Undef, savedAt |-> 0,
   ops |-> <<>>, detached |-> "none", detachedId |-> NoId, overlapped |-> FALSE,
   getAt |-> 0, resolvedWith |-> NotResolved,
   prev |-> EmptyMap]

\* An option is the set of the values given for it: empty when it is not given.
Unset == {}

\* No options.cookie and no options.expiry.
NoCookieOptions ==
  [name |-> Unset, path |-> Unset, domain |-> Unset, secure |-> Unset,
   httpOnly |-> Unset, sameSite |-> Unset, maxAge |-> Unset, expiry |-> Unset]

\* option || fallback: the fallback when the option is not given or is "".
OrElse(option, fallback) ==
  IF option = Unset \/ option = {""} THEN fallback ELSE CHOOSE v \in option : TRUE

\* option ?? fallback: the fallback when the option is not given.
Coalesce(option, fallback) ==
  IF option = Unset THEN fallback ELSE CHOOSE v \in option : TRUE

\* A lookup that terminates the session before it has read it.
LookupOps_DeleteFirst(presented, invalid) ==
  (IF invalid THEN <<"delete">> ELSE <<>>) \o (IF presented THEN <<"get">> ELSE <<>>)

\* Lines 236-247: store.get when a cookie was presented, awaited, and then the
\* awaited store.delete of logout() when the record fails validation.
LookupOps(presented, invalid) ==
  (IF presented THEN <<"get">> ELSE <<>>) \o (IF invalid THEN <<"delete">> ELSE <<>>)

\* A save that writes the record before the rotation deletes the old one.
SaveOps_SetFirst(rotate) ==
  <<"set">> \o (IF rotate THEN <<"delete">> ELSE <<>>) \o <<"cookie">>

\* Lines 337-339, 369 and 371: the awaited store.delete of a manual rotation,
\* then the awaited store.set, then setCookie.
SaveOps(rotate) == (IF rotate THEN <<"delete">> ELSE <<>>) \o <<"set", "cookie">>

\* headers.get(name) || undefined: a header that is absent or empty gives
\* undefined.
HeaderValue(header) == IF header = "" THEN Undef ELSE header

\* Lines 195-198: the User-Agent header when options.trackUserAgent is set.
CurrentUa(track, header) == IF track THEN HeaderValue(header) ELSE Undef

\* An address taken from the connection whatever options.trackIp names.
CurrentIp_RemoteOnly(track, header, forwarded, hostname) ==
  IF track THEN hostname ELSE Undef

\* Lines 200-209: the header options.trackIp names when it names one, else the
\* hostname of ctx.info.remoteAddr; nothing when options.trackIp is not set.
CurrentIp(track, header, forwarded, hostname) ==
  IF ~track THEN Undef
  ELSE IF header # Unset /\ header # {""} THEN HeaderValue(forwarded)
  ELSE hostname

\* A max-age that lets expiry win.
CookieMaxAge_ExpiryFirst(o) == IF o.expiry # Unset THEN o.expiry ELSE o.maxAge

\* maxAge: cookieOptions.maxAge ?? sessionExpiry (undefined when neither is given).
CookieMaxAge(o) == IF o.maxAge # Unset THEN o.maxAge ELSE o.expiry

\* Lines 181-188 and 371-379: the cookie handed to setCookie.
SessionCookie(o, value) ==
  [name |-> OrElse(o.name, "sessionId"), value |-> value,
   path |-> OrElse(o.path, "/"),
   httpOnly |-> Coalesce(o.httpOnly, TRUE),
   secure |-> Coalesce(o.secure, TRUE),
   sameSite |-> Coalesce(o.sameSite, "Lax"),
   maxAge |-> CookieMaxAge(o)]

\* The prefix of the token header when options.tokenPrefix is not given
\* ("Bearer "), and a prefix of the deployment's own choosing.
DefaultPrefix == <<"B">>
CustomPrefix == <<"X">>

\* No options.verifyToken: every request is served with a session.
NoTokens ==
  [verifyToken |-> FALSE, tokenHeader |-> "unset",
   tokenPrefix |-> [kind |-> "unset", value |-> <<>>]]

\* A validation that lets the handler work on the record it has just ended.
Validated_Kept(raw, invalid, ua, ip) == raw

\* Lines 242-247: the loaded record is the working record, unless its
\* User-Agent differs: then logout() leaves an empty one in its place.
Validated(raw, invalid, ua, ip) == IF invalid THEN NewStoredSession(ua, ip) ELSE raw

\* A MemorySessionStorage, which has no resolveUser, and no options.resolveUser.
NoResolvers == [explicit |-> FALSE, store |-> FALSE]

\* What a resolver returns: the user, or undefined.
ResolverResults == {"Alice", Undef}

\* A resolution that asks the store first.
ResolverInvoked_StoreFirst(res, userId) ==
  IF userId # Undef /\ res.store THEN "store"
  ELSE IF res.explicit THEN "explicit" ELSE "none"

\* Lines 312-326: options.resolveUser when configured, else the store's
\* resolveUser when the working record has a userId and the store has one.
ResolverInvoked(res, userId) ==
  IF res.explicit THEN "explicit"
  ELSE IF userId # Undef /\ res.store THEN "store" ELSE "none"

\* if (resolved) ctx.state.user = resolved
ResolvedUser(invoked, result) == IF invoked # "none" THEN result ELSE Undef

\* if (ctx.state.user) ctx.state.userId = storedSession.userId
UserIdSet(user) == user # Undef

\* The stores a deployment can start with: empty, or holding one session of
\* an earlier run: a flat value as the first versions stored it
\* (store.set(sessionId, ctx.state.session)), or a record of this version.
InitialStores ==
  {EmptyMap, [i \in {OldId} |-> [a |-> "x"]]}
  \cup {[i \in {OldId} |->
           [data |-> [a |-> "x"], flash |-> [k |-> "x"], userId |-> "alice",
            lastSeenAt |-> 0, ua |-> ua, ip |-> Undef]] : ua \in {"Chrome", Undef}}

Init ==
  /\ trackUserAgent \in BOOLEAN
  /\ trackIp \in BOOLEAN
  /\ resolvers = NoResolvers
  /\ sharing = FALSE
  /\ tokenOptions = NoTokens
  /\ now = 0
  /\ cookieOptions = NoCookieOptions
  /\ ipHeader = Unset
  /\ store \in InitialStores
  /\ nextId = 1
  /\ req = [r \in Requests |-> IdleRequest]
  /\ hist = EmptyMap
  /\ loggedInFrom = {}

\* crypto.randomUUID(): an ID no one has seen; the model stops issuing at MaxIds.
CanIssue == nextId <= MaxIds

\* The place of the latest store.set among those of the requests in flight.
LatestSetAt ==
  CHOOSE n \in {req[x].setAt : x \in DOMAIN req} :
    \A x \in DOMAIN req : req[x].setAt <= n

\* Requests are handled one at a time: a request arrives when no other is in flight.
Sequential(r) == \A q \in Requests \ {r} : req[q].pc = "idle"

\* The session IDs a client can present: none, a made-up one, the key of the
\* record of the earlier run, or any ID issued so far.
Presentable == {NoId, BogusId, OldId} \cup (1..(nextId - 1))

\* Lines 191-218: read the cookie, capture the client signals, start from an
\* empty working record.
Arrive(r, c, ua, forwarded, ip) ==
  /\ req[r].pc = "idle"
  /\ StoreHas(store, c) \/ Cardinality(DOMAIN store) < MaxSessions
  /\ LET cua == CurrentUa(trackUserAgent, ua)
         cip == CurrentIp(trackIp, ipHeader, forwarded, ip)
     IN req' = [req EXCEPT ![r] =
           [IdleRequest EXCEPT !.pc = "hydrate", !.cookie = c, !.sessionId = c,
              !.currentUa = cua, !.currentIp = cip,
              !.userAgent = IF trackUserAgent THEN ua ELSE Undef,
              !.forwarded = IF trackIp /\ ipHeader # Unset THEN forwarded ELSE Undef,
              !.remoteAddr = IF trackIp THEN ip ELSE Undef,
              !.storedSession = NewStoredSession(cua, cip),
              !.live = StoreHas(store, c),
              !.presented = IF StoreHas(store, c) THEN StoreGet(store, c) ELSE EmptyMap,
              !.prev = IF c \in DOMAIN hist THEN hist[c] ELSE EmptyMap]]
  /\ hist' = EmptyMap
  /\ UNCHANGED <<store, nextId, trackUserAgent, trackIp, resolvers, sharing, tokenOptions, now, cookieOptions, ipHeader, loggedInFrom>>

Receive(r) ==
  /\ Sequential(r)
  /\ \E c \in Presentable, ua \in UserAgents, ip \in Ips : Arrive(r, c, ua, Undef, ip)

\* Lines 236-330: look the cookie's ID up, adopt the record or migrate a flat
\* one, invalidate on a changed User-Agent (logout, lines 220-234), issue an ID
\* when none survived, populate ctx.state, and resolve the user.
Hydrate(r) ==
  /\ req[r].pc = "hydrate"
  /\ LET q == req[r]
         c == q.sessionId
         hit == c # NoId /\ StoreHas(store, c)
         raw == StoreGet(store, c)
         current == hit /\ IsCurrentShape(raw)
         invalid == current /\ SessionInvalid(trackUserAgent, raw, q.currentUa, q.currentIp)
         keep == hit /\ ~invalid
         ss == IF current THEN Validated(raw, invalid, q.currentUa, q.currentIp)
               ELSE IF hit /\ ~current THEN Migrated(raw, q.currentUa, q.currentIp)
               ELSE NewStoredSession(q.currentUa, q.currentIp)
         sid == AssignedId(keep, c, nextId)
         invoked == ResolverInvoked(resolvers, ss.userId)
     IN /\ keep \/ CanIssue
        /\ store' = IF invalid THEN LogoutDelete(store, c) ELSE store
        /\ nextId' = IF keep THEN nextId ELSE nextId + 1
        /\ \E returned \in ResolverResults :
             LET user == ResolvedUser(invoked, returned)
             IN req' = [req EXCEPT ![r] =
              [q EXCEPT !.pc = "handler", !.sessionId = sid, !.initialSessionId = sid,
                 !.storedSession = ss, !.ctxSessionId = sid, !.ctxSession = ss.data,
                 !.linked = TRUE,
                 !.shared = Shared(sharing, current /\ ~invalid, hit /\ ~current),
                 !.issuedFrom = nextId,
                 !.storeOps = @ \cup (IF c # NoId THEN {"get"} ELSE {})
                                \cup (IF invalid THEN {"delete"} ELSE {}),
                 !.ops = LookupOps(c # NoId, invalid) \o <<"next">>,
                 !.getAt = LatestSetAt,
                 !.invoked = invoked,
                 !.resolvedWith = IF invoked # "none"
                                  THEN [userId |-> ss.userId, data |-> ss.data, called |-> TRUE]
                                  ELSE NotResolved,
                 !.result = IF invoked # "none" THEN returned ELSE Undef,
                 !.user = user, !.userIdSet = UserIdSet(user),
                 !.userId = IF UserIdSet(user) THEN ss.userId ELSE Undef,
                 !.found = IF invalid THEN "invalid" ELSE IF current THEN "current"
                           ELSE IF hit THEN "legacy" ELSE "none",
                 !.preFlash = ss.flash, !.op = "enter", !.nextCalled = TRUE]]
  /\ UNCHANGED <<trackUserAgent, trackIp, resolvers, sharing, tokenOptions, now, cookieOptions, ipHeader, hist, loggedInFrom>>

\* ------------------------------------------------- the handler (ctx.next())

\* The handler is running and may make one more call.
CanCall(r) == req[r].pc = "handler" /\ req[r].calls < MaxCalls

\* The request after a call: what it was, by the key, returning ret.
Called(q, op, key, ret) ==
  [q EXCEPT !.calls = @ + 1, !.op = op, !.key = key, !.ret = ret, !.loginLast = FALSE]

\* ctx.state.session[k] = v.  ctx.state.session is storedSession.data itself
\* (line 276, line 306) until logout() gives each an empty object of its own.
WriteKey(r, k, v) ==
  LET q == req[r]
      d == Put(q.ctxSession, k, v)
  IN /\ req' = [req EXCEPT ![r] =
           [Called(q, "write", k, Undef) EXCEPT !.ctxSession = d,
              !.written = @ \cup {k},
              !.storedSession = IF q.linked THEN [q.storedSession EXCEPT !.data = d]
                                ELSE q.storedSession]]
     /\ store' = WrittenThrough(store, q.shared, q.initialSessionId, d)

WriteSession(r) ==
  /\ CanCall(r)
  /\ \E k \in DataKeys, v \in Vals : WriteKey(r, k, v)
  /\ UNCHANGED <<nextId, trackUserAgent, trackIp, resolvers, sharing, tokenOptions, now, cookieOptions, ipHeader, hist, loggedInFrom>>

\* ctx.state.flash(key): lines 284-290.
FlashGet(r) ==
  /\ CanCall(r)
  /\ \E k \in FlashKeys :
       LET q == req[r]
           flash == q.storedSession.flash
       IN req' = [req EXCEPT ![r] =
             [Called(q, "flashGet", k, FlashValue(flash, k)) EXCEPT
                !.reads[k] = @ + 1,
                !.got = IF FlashValue(flash, k) # Undef THEN @ \cup {k} ELSE @,
                !.gotStaged = IF FlashValue(flash, k) # Undef /\ q.prev # EmptyMap
                                 /\ k \in DOMAIN q.prev.newFlash
                              THEN @ \cup {k} ELSE @,
                !.consumedFlash = FlashConsumed(flash, @, k),
                !.storedSession = [q.storedSession EXCEPT !.flash = FlashAfterRead(@, k)]]]
  /\ UNCHANGED <<store, nextId, trackUserAgent, trackIp, resolvers, sharing, tokenOptions, now, cookieOptions, ipHeader, hist, loggedInFrom>>

\* ctx.state.flash(key, value): lines 291-294.
FlashSet(r) ==
  /\ CanCall(r)
  /\ \E k \in FlashKeys, v \in Vals :
       req' = [req EXCEPT ![r] =
          [Called(req[r], "flashSet", k, Undef) EXCEPT !.newFlash = FlashStaged(@, k, v)]]
  /\ UNCHANGED <<store, nextId, trackUserAgent, trackIp, resolvers, sharing, tokenOptions, now, cookieOptions, ipHeader, hist, loggedInFrom>>

\* ctx.state.hasFlash(key): lines 297-299.
HasFlashCall(r) ==
  /\ CanCall(r)
  /\ \E k \in FlashKeys :
       LET q == req[r]
           has == HasFlash(q.storedSession.flash, q.newFlash, k)
       IN req' = [req EXCEPT ![r] =
             Called(q, "hasFlash", k, IF has THEN "true" ELSE "false")]
  /\ UNCHANGED <<store, nextId, trackUserAgent, trackIp, resolvers, sharing, tokenOptions, now, cookieOptions, ipHeader, hist, loggedInFrom>>

\* The payloads a handler passes to login(userId, data?): none, or an object.
LoginPayloads == {EmptyMap, [a |-> "y"]}

\* ctx.state.login(userId, data): lines 302-307, with rotateSession, lines 268-272.
Login(r) ==
  /\ CanCall(r)
  /\ CanIssue
  /\ \E u \in Users, d \in LoginPayloads :
       LET q == req[r]
       IN req' = [req EXCEPT ![r] =
             [Called(q, "login", Undef, Undef) EXCEPT
                !.sessionId = nextId, !.ctxSessionId = nextId,
                !.storedSession = LoggedIn(q.storedSession, u, d),
                !.ctxSession = d, !.linked = TRUE, !.calledLogin = TRUE,
                !.shared = "none", !.storeOps = @ \cup {"delete"},
                !.ops = Append(@, "delete"),
                !.overlapped = @ \/ q.detached \in {"issued", "applied"},
                !.loginUser = u, !.loginData = d, !.loginLast = TRUE]]
  /\ store' = RotateDelete(store, req[r].initialSessionId)
  /\ nextId' = nextId + 1
  /\ loggedInFrom' = loggedInFrom \cup ({req[r].cookie, req[r].initialSessionId} \ {NoId})
  /\ UNCHANGED <<trackUserAgent, trackIp, resolvers, sharing, tokenOptions, now, cookieOptions, ipHeader, hist>>

\* ctx.state.logout(): lines 220-234.
Logout(r) ==
  /\ CanCall(r)
  /\ CanIssue
  /\ LET q == req[r]
     IN /\ req' = [req EXCEPT ![r] =
             [Called(q, "logout", Undef, Undef) EXCEPT
                !.sessionId = nextId, !.ctxSessionId = nextId,
                !.storedSession = NewStoredSession(q.currentUa, q.currentIp),
                !.ctxSession = EmptyMap, !.linked = FALSE, !.calledLogout = TRUE,
                !.shared = "none", !.storeOps = @ \cup {"delete"},
                !.ops = Append(@, "delete"),
                !.overlapped = @ \/ q.detached \in {"issued", "applied"},
                !.loggedOutFrom = q.sessionId]]
        /\ store' = LogoutDelete(store, q.sessionId)
  /\ nextId' = nextId + 1
  /\ UNCHANGED <<trackUserAgent, trackIp, resolvers, sharing, tokenOptions, now, cookieOptions, ipHeader, hist, loggedInFrom>>

\* The values a handler assigns to ctx.state.sessionId: one of its own making,
\* or the ID of a stored session (its own included).
Assignable == {UnsafeId} \cup DOMAIN store

\* ctx.state.sessionId = x, by the handler.
SetSessionId(r) ==
  /\ CanCall(r)
  /\ \E x \in Assignable :
       req' = [req EXCEPT ![r] =
          [Called(req[r], "setId", Undef, Undef) EXCEPT !.ctxSessionId = x,
             !.assigned = x]]
  /\ UNCHANGED <<store, nextId, trackUserAgent, trackIp, resolvers, sharing, tokenOptions, now, cookieOptions, ipHeader, hist, loggedInFrom>>

\* ctx.next() resolves with the response.
Return(r) ==
  /\ req[r].pc = "handler"
  /\ req' = [req EXCEPT ![r] = [@ EXCEPT !.pc = "post", !.op = "return", !.key = Undef,
                                   !.ret = Undef, !.prev = EmptyMap,
                                   !.ops = Append(@, "returned")]]
  /\ UNCHANGED <<store, nextId, trackUserAgent, trackIp, resolvers, sharing, tokenOptions, now, cookieOptions, ipHeader, hist, loggedInFrom>>

\* ------------------------------------------------------- after the handler

\* What a completed request leaves for the next one on its session: the keys
\* its handler wrote, as it left them, what it staged and read of the flash and
\* the flash map it saved, whether it went without login(), logout() and
\* rotation, and its User-Agent.
Summary(q) ==
  [session |-> [k \in q.written \cap DOMAIN q.ctxSession |-> q.ctxSession[k]],
   newFlash |-> q.newFlash, reads |-> q.reads, got |-> q.got, gotStaged |-> q.gotStaged,
   flash |-> q.storedSession.flash,
   clean |-> ~q.calledLogin /\ ~q.calledLogout /\ ~q.rotated,
   currentUa |-> q.currentUa]

\* A cookie that echoes the ID the request started with.
CookieValue_Initial(sessionId, initialSessionId) == initialSessionId

\* setCookie(response.headers, { name: cookieName, value: sessionId, ... })
CookieValue(sessionId, initialSessionId) == sessionId

\* Lines 334-381: rotate when the handler changed ctx.state.sessionId, merge
\* the flash, refresh the tracked signals, save, and set the cookie.
Save(r) ==
  /\ req[r].pc = "post"
  /\ LET q == req[r]
         rotate == RotationRequested(q.ctxSessionId, q.sessionId)
         sid == SavedId(rotate, q.sessionId, q.ctxSessionId, nextId)
         afterDelete == IF rotate THEN RotateDelete(store, q.initialSessionId) ELSE store
         merged == [q.storedSession EXCEPT
                      !.flash = PerformFlashCleanup(@, q.consumedFlash, q.newFlash)]
         ss == Tracked(merged, trackUserAgent, q.currentUa, trackIp, q.currentIp)
         done == [q EXCEPT !.pc = "done", !.sessionId = sid, !.ctxSessionId = sid,
                    !.storedSession = ss, !.rotated = rotate,
                    !.sets = @ + 1, !.setKey = sid, !.setAt = LatestSetAt + 1,
                    !.savedAt = now,
                    !.ops = @ \o SaveOps(rotate),
                    !.overlapped = @ \/ q.detached \in {"issued", "applied"},
                    !.storeOps = @ \cup {"set"} \cup (IF rotate THEN {"delete"} ELSE {}),
                    !.setCookie = CookieValue(sid, q.initialSessionId),
                    !.responseCookie =
                       SessionCookie(cookieOptions, CookieValue(sid, q.initialSessionId))]
     IN /\ rotate => CanIssue
        /\ nextId' = IF rotate THEN nextId + 1 ELSE nextId
        /\ store' = StoreSet(afterDelete, sid, ss)
        /\ req' = [req EXCEPT ![r] = done]
        /\ hist' = [x \in {done.setCookie} |-> Summary(done)]
  /\ UNCHANGED <<trackUserAgent, trackIp, resolvers, sharing, tokenOptions, now, cookieOptions, ipHeader, loggedInFrom>>

\* The response has gone out; the slot is free again.
Complete(r) ==
  /\ req[r].pc = "done"
  /\ req' = [req EXCEPT ![r] = IdleRequest]
  /\ UNCHANGED <<store, nextId, trackUserAgent, trackIp, resolvers, sharing, tokenOptions, now, cookieOptions, ipHeader, hist, loggedInFrom>>

\* The backend drops a record whose time to live has run out (expireIn).
Expire ==
  /\ \A r \in Requests : req[r].pc = "idle"
  /\ \E id \in DOMAIN store : store' = StoreDelete(store, id)
  /\ hist' = EmptyMap
  /\ UNCHANGED <<nextId, trackUserAgent, trackIp, resolvers, sharing, tokenOptions, now, cookieOptions, ipHeader, req, loggedInFrom>>

Next ==
  \/ Expire
  \/ \E r \in Requests :
    \/ Receive(r)
    \/ Hydrate(r)
    \/ WriteSession(r)
    \/ FlashGet(r)
    \/ FlashSet(r)
    \/ HasFlashCall(r)
    \/ Login(r)
    \/ Logout(r)
    \/ SetSessionId(r)
    \/ Return(r)
    \/ Save(r)
    \/ Complete(r)

Spec == Init /\ [][Next]_vars

\* ------------------------------------------------------------- properties

\* The request has just been handed to the handler, which has made no call yet.
Entered(q) == q.pc = "handler" /\ q.op = "enter"

\* The request has been saved and its response carries the cookie.
Responded(q) == q.pc = "done"

\* The request follows a response on the ID it presents, with no request between.
Follows(q) == q.prev # EmptyMap

\* The request passes the User-Agent check against the request before it.
SameAgent(q) == trackUserAgent => q.currentUa = q.prev.currentUa

\* Every entry of m is in n with the same value.
Within(m, n) == \A k \in DOMAIN m : k \in DOMAIN n /\ n[k] = m[k]

\* C1 as stated: after a request without login(), logout() or rotation, the
\* next request presenting the ID of its response's cookie sees every key that
\* request's handler wrote, with the same value, whatever its User-Agent.
C1_AsStated ==
  \A r \in Requests :
    LET q == req[r]
    IN Entered(q) /\ Follows(q) /\ q.prev.clean => Within(q.prev.session, q.ctxSession)

\* C1: after a request without login(), logout() or rotation, the next request
\* presenting the ID of its response's cookie sees every key that request's
\* handler wrote, with the same value, provided that with trackUserAgent
\* enabled it comes with the same User-Agent.
C1_RoundTrip ==
  \A r \in Requests :
    LET q == req[r]
    IN Entered(q) /\ Follows(q) /\ q.prev.clean /\ SameAgent(q)
         => Within(q.prev.session, q.ctxSession)

\* A request under User-Agent tracking finds what the request before it wrote.
C1_Witness ==
  \E r \in Requests :
    LET q == req[r]
    IN /\ Entered(q) /\ Follows(q) /\ q.prev.clean /\ trackUserAgent
       /\ q.currentUa = q.prev.currentUa
       /\ q.prev.session # EmptyMap
       /\ q.ctxSession = q.prev.session

\* C2: once a request has called login(), the store holds no record under the
\* ID that request started with (the cookie's, and the ID it was handed), and a
\* later request presenting such an ID gets an empty session and another ID,
\* in the handler and in the response cookie.
C2_RotationInvalidatesOldId ==
  /\ \A id \in loggedInFrom : ~StoreHas(store, id)
  /\ \A r \in Requests :
       LET q == req[r]
       IN /\ Entered(q) /\ q.cookie \in loggedInFrom
             => q.ctxSession = EmptyMap /\ q.sessionId # q.cookie
                /\ q.ctxSessionId # q.cookie
          /\ Responded(q) /\ q.cookie \in loggedInFrom => q.setCookie # q.cookie

\* A request presents the ID of the earlier run's session after a login() on it.
C2_Witness ==
  \E r \in Requests :
    LET q == req[r]
    IN Entered(q) /\ q.cookie = OldId /\ OldId \in loggedInFrom
       /\ q.ctxSession = EmptyMap /\ q.sessionId \notin {OldId, NoId}

\* C3: when the handler leaves ctx.state.sessionId at a value other than the
\* engine's ID, without login() or logout(), the response cookie and the saved
\* record use an ID generated at the save, which is neither the handler's
\* value nor the request's original ID; the record under the original ID is
\* gone, and the record under the new ID holds the session as the handler
\* left it.
C3_HandlerIdNeverAdopted ==
  \A r \in Requests :
    LET q == req[r]
    IN Responded(q) /\ q.assigned \notin {NoId, q.initialSessionId}
         /\ ~q.calledLogin /\ ~q.calledLogout
       => /\ q.setCookie = nextId - 1
          /\ q.setCookie \notin {q.assigned, q.initialSessionId, q.cookie}
          /\ ~StoreHas(store, q.initialSessionId)
          /\ StoreHas(store, q.setCookie)
          /\ StoreGet(store, q.setCookie).data = q.ctxSession

\* A handler on a stored session wrote a key and assigned its own session ID.
C3_Witness ==
  \E r \in Requests :
    LET q == req[r]
    IN /\ Responded(q) /\ q.assigned = UnsafeId /\ ~q.calledLogin /\ ~q.calledLogout
       /\ q.live /\ q.initialSessionId = q.cookie /\ q.written # {}
       /\ ~StoreHas(store, q.cookie)
       /\ StoreGet(store, q.setCookie).data = q.ctxSession

\* C4: a request whose cookie names no stored record reaches the handler with
\* an empty session and empty working record under an ID generated for it, not
\* the cookie's value, and whatever the handler does the response cookie never
\* carries the presented value.
C4_UnknownCookie ==
  \A r \in Requests :
    LET q == req[r]
    IN q.cookie # NoId /\ ~q.live
       => /\ Entered(q) => /\ q.ctxSession = EmptyMap
                           /\ q.storedSession = NewStoredSession(q.currentUa, q.currentIp)
                           /\ q.sessionId = nextId - 1
                           /\ q.ctxSessionId = q.sessionId
          /\ q.pc \in {"handler", "post", "done"} => q.sessionId # q.cookie
          /\ Responded(q) => q.setCookie # q.cookie /\ StoreHas(store, q.setCookie)
                             /\ ~StoreHas(store, q.cookie)

\* A request with a made-up cookie has been answered.
C4_Witness ==
  \E r \in Requests :
    LET q == req[r]
    IN Responded(q) /\ q.cookie = BogusId /\ ~q.live /\ q.setCookie \notin {BogusId, NoId}

\* The handler is running and its latest call was op.
Calling(q, op) == q.pc = "handler" /\ q.op = op

\* C5 as stated: flash(k) in the request after one that staged k returns the
\* staged value; in the request after one that read the value so staged,
\* flash(k) returns undefined and hasFlash(k) false.
C5_AsStated ==
  \A r \in Requests :
    LET q == req[r]
    IN q.pc = "handler" /\ Follows(q)
       => /\ Calling(q, "flashGet") /\ q.key \in DOMAIN q.prev.newFlash
             => q.ret = q.prev.newFlash[q.key]
          /\ Calling(q, "flashGet") /\ q.key \in q.prev.gotStaged => q.ret = Undef
          /\ Calling(q, "hasFlash") /\ q.key \in q.prev.gotStaged => q.ret = "false"

\* C5: flash(k) in the request after one that staged k returns the staged
\* value, provided the request passes the User-Agent check and has not called
\* logout(); in the request after one that read the value so staged and did
\* not stage k again, flash(k) returns undefined, and hasFlash(k) returns
\* false until that request stages k itself.
C5_FlashSingleRead ==
  \A r \in Requests :
    LET q == req[r]
    IN q.pc = "handler" /\ Follows(q)
       => /\ Calling(q, "flashGet") /\ q.key \in DOMAIN q.prev.newFlash
               /\ SameAgent(q) /\ ~q.calledLogout
             => q.ret = q.prev.newFlash[q.key]
          /\ Calling(q, "flashGet") /\ q.key \in q.prev.gotStaged
               /\ q.key \notin DOMAIN q.prev.newFlash
             => q.ret = Undef
          /\ Calling(q, "hasFlash") /\ q.key \in q.prev.gotStaged
               /\ q.key \notin DOMAIN q.prev.newFlash /\ q.key \notin DOMAIN q.newFlash
             => q.ret = "false"

\* The third request of the chain asks for the key the second one read.
C5_Witness ==
  \E r \in Requests :
    LET q == req[r]
    IN /\ Calling(q, "flashGet") /\ Follows(q) /\ q.key \in q.prev.gotStaged
       /\ q.key \notin DOMAIN q.prev.newFlash /\ q.found = "current"
       /\ q.ret = Undef

\* C6 as stated: every flash(k) for a key of the pre-request flash set returns
\* the pre-request value, and the working record's flash is the pre-request
\* set until the save.
C6_AsStated ==
  \A r \in Requests :
    LET q == req[r]
    IN /\ Calling(q, "flashGet") /\ q.key \in DOMAIN q.preFlash => q.ret = q.preFlash[q.key]
       /\ q.pc \in {"handler", "post"} /\ ~q.calledLogout => q.storedSession.flash = q.preFlash

\* C6: in a request that has not called logout(), every flash(k) for a key of
\* the pre-request flash set returns the pre-request value, however often it is
\* called, and the working record's flash is the pre-request set until the save.
C6_FlashMultiRead ==
  \A r \in Requests :
    LET q == req[r]
    IN /\ Calling(q, "flashGet") /\ q.key \in DOMAIN q.preFlash /\ ~q.calledLogout
          => q.ret = q.preFlash[q.key]
       /\ q.pc \in {"handler", "post"} /\ ~q.calledLogout => q.storedSession.flash = q.preFlash

\* The handler has read the same stored key a second time.
C6_Witness ==
  \E r \in Requests :
    LET q == req[r]
    IN /\ Calling(q, "flashGet") /\ q.key \in DOMAIN q.preFlash /\ ~q.calledLogout
       /\ q.reads[q.key] = 2 /\ q.ret = q.preFlash[q.key]

\* The pre-request entries that were not read, overlaid with the staged ones.
C7_Merge(pre, reads, staged) ==
  [k \in {x \in DOMAIN pre : x \notin DOMAIN reads \/ reads[x] = 0} \cup (DOMAIN staged) |->
     IF k \in DOMAIN staged THEN staged[k] ELSE pre[k]]

\* C7 as stated: the flash saved at the end of a request is the pre-request
\* entries the request did not read, overlaid with those it staged, and the
\* next request on the session starts from the flash so saved.
C7_AsStated ==
  \A r \in Requests :
    LET q == req[r]
    IN /\ Responded(q)
          => StoreHas(store, q.setCookie)
             /\ StoreGet(store, q.setCookie).flash = C7_Merge(q.preFlash, q.reads, q.newFlash)
       /\ Entered(q) /\ Follows(q) => q.preFlash = q.prev.flash

\* C7: the flash saved at the end of a request that did not call logout() is
\* the pre-request entries the request did not read, overlaid with those it
\* staged, and the next request on the session, when it passes the User-Agent
\* check, starts from the flash so saved.
C7_FlashMerge ==
  \A r \in Requests :
    LET q == req[r]
    IN /\ Responded(q) /\ ~q.calledLogout
          => StoreHas(store, q.setCookie)
             /\ StoreGet(store, q.setCookie).flash = C7_Merge(q.preFlash, q.reads, q.newFlash)
       /\ Entered(q) /\ Follows(q) /\ SameAgent(q) => q.preFlash = q.prev.flash

\* A request left a stored key unread, staged another value for it, and the
\* staged value was saved.
C7_Witness ==
  \E r \in Requests, k \in FlashKeys :
    LET q == req[r]
    IN /\ Responded(q) /\ ~q.calledLogout
       /\ k \in DOMAIN q.preFlash /\ q.reads[k] = 0
       /\ k \in DOMAIN q.newFlash /\ q.newFlash[k] # q.preFlash[k]
       /\ StoreGet(store, q.setCookie).flash[k] = q.newFlash[k]

\* The pre-request value of the key, or undefined.
C8_PreValue(q) == IF q.key \in DOMAIN q.preFlash THEN q.preFlash[q.key] ELSE Undef

StoredUa(raw) == IF "ua" \in DOMAIN raw THEN raw.ua ELSE Undef

\* The request presents the ID of a stored value whose ua is not its User-Agent.
Mismatch(q) == trackUserAgent /\ q.live /\ StoredUa(q.presented) # q.currentUa

\* What a request with a mismatching User-Agent is to get: the presented
\* record gone, an empty session and working record under another ID, and,
\* when the handler does nothing, an empty record saved under the new ID.
FreshSession(q) ==
  /\ q.pc \in {"handler", "post", "done"}
     => ~StoreHas(store, q.cookie) /\ q.sessionId # q.cookie
  /\ Entered(q)
     => q.ctxSession = EmptyMap /\ q.ctxSessionId # q.cookie
        /\ q.storedSession = NewStoredSession(q.currentUa, q.currentIp)
  /\ Responded(q)
     => /\ q.setCookie # q.cookie /\ StoreHas(store, q.setCookie)
        /\ q.calls = 0
           => StoreGet(store, q.setCookie) = NewStoredSession(q.currentUa, q.currentIp)

\* C9 as stated: with trackUserAgent enabled, a request presenting the ID of
\* any stored value whose ua differs from its User-Agent gets a fresh session.
C9_AsStated == \A r \in Requests : Mismatch(req[r]) => FreshSession(req[r])

\* C9: with trackUserAgent enabled, a request presenting the ID of a stored
\* record of the current {data, flash} shape whose ua differs from its
\* User-Agent has the record deleted before the handler runs, sees an empty
\* session, gets another ID in the response cookie, and the record saved under
\* it has none of the old data, flash or userId.
C9_UaMismatchFreshSession ==
  \A r \in Requests :
    Mismatch(req[r]) /\ IsCurrentShape(req[r].presented) => FreshSession(req[r])

\* A session written under Chrome was presented under Firefox and answered.
C9_Witness ==
  \E r \in Requests :
    LET q == req[r]
    IN /\ Responded(q) /\ Mismatch(q) /\ IsCurrentShape(q.presented)
       /\ q.presented.ua = "Chrome" /\ q.currentUa = "Firefox"
       /\ q.presented.data # EmptyMap /\ q.calls = 0
       /\ StoreGet(store, q.setCookie).data = EmptyMap

\* The session data of a stored value: its data, or all of a flat value.
StoredData(raw) == IF IsCurrentShape(raw) THEN raw.data ELSE raw

\* C10: a request presenting the ID of a stored value is handed that session,
\* under the same ID and with the stored data, the stored value untouched,
\* whenever trackUserAgent is disabled or the stored ua is its User-Agent,
\* whatever its IP and the stored ip are.
C10_OnlyUaInvalidates ==
  \A r \in Requests :
    LET q == req[r]
    IN Entered(q) /\ q.live /\ (~trackUserAgent \/ StoredUa(q.presented) = q.currentUa)
       => /\ q.sessionId = q.cookie /\ q.ctxSessionId = q.cookie
          /\ q.ctxSession = StoredData(q.presented)
          /\ StoreHas(store, q.cookie) /\ StoreGet(store, q.cookie) = q.presented

\* With both signals tracked, a session stored from one IP is kept for a
\* request from another IP with the same User-Agent.
C10_Witness ==
  \E r \in Requests :
    LET q == req[r]
    IN /\ Entered(q) /\ q.live /\ trackUserAgent /\ trackIp
       /\ IsCurrentShape(q.presented) /\ q.presented.ua = q.currentUa
       /\ q.presented.ip \notin {q.currentIp, Undef}
       /\ q.sessionId = q.cookie /\ q.ctxSession = q.presented.data
       /\ q.presented.data # EmptyMap

PayloadUsers == {"mallory"}

\* Stores whose session payload has a key named userId: a flat value of an
\* earlier version (store.set(sessionId, ctx.state.session)), a flat value of
\* an earlier version whose payload also has the keys data and flash (an absent
\* ua or ip reads as undefined), and a record of a logged-in user.
IdentityStores ==
  {[i \in {OldId} |-> [userId |-> "mallory"]],
   [i \in {OldId} |->
      [data |-> EmptyMap, flash |-> EmptyMap, userId |-> "mallory",
       lastSeenAt |-> 0, ua |-> Undef, ip |-> Undef]],
   [i \in {OldId} |->
      [data |-> [userId |-> "mallory"], flash |-> EmptyMap, userId |-> "alice",
       lastSeenAt |-> 0, ua |-> "Chrome", ip |-> Undef]]}

IdentityInit ==
  /\ trackUserAgent \in BOOLEAN
  /\ trackIp = FALSE
  /\ resolvers = NoResolvers
  /\ sharing = FALSE
  /\ tokenOptions = NoTokens
  /\ now = 0
  /\ cookieOptions = NoCookieOptions
  /\ ipHeader = Unset
  /\ store \in IdentityStores
  /\ nextId = 1
  /\ req = [r \in Requests |-> IdleRequest]
  /\ hist = EmptyMap
  /\ loggedInFrom = {}

\* ctx.state.session.userId = v, by the handler.
WriteUserIdKey(r) ==
  /\ CanCall(r)
  /\ \E v \in PayloadUsers : WriteKey(r, "userId", v)
  /\ UNCHANGED <<nextId, trackUserAgent, trackIp, resolvers, sharing, tokenOptions, now, cookieOptions, ipHeader, hist, loggedInFrom>>

\* The requests of handlers that write the session and change the identity.
IdentityNext ==
  \/ Expire
  \/ \E r \in Requests :
       \/ Receive(r)
       \/ Hydrate(r)
       \/ WriteSession(r)
       \/ WriteUserIdKey(r)
       \/ Login(r)
       \/ Logout(r)
       \/ Return(r)
       \/ Save(r)
       \/ Complete(r)

IdentitySpec == IdentityInit /\ [][IdentityNext]_vars

\* The userId of the record the request loaded: that of a presented record of
\* the current shape, else none.
LoadedUserId(q) ==
  IF q.live /\ IsCurrentShape(q.presented) THEN q.presented.userId ELSE Undef

\* The userId of the working record and of the saved record is that of the
\* record the request loaded unless login() or logout() was called or the
\* User-Agent check invalidated the session.
UserIdKept(q) ==
  LET explicit == q.calledLogin \/ q.calledLogout
                  \/ (Mismatch(q) /\ IsCurrentShape(q.presented))
  IN /\ q.pc \in {"handler", "post", "done"} /\ ~explicit
        => q.storedSession.userId = LoadedUserId(q)
     /\ Responded(q) /\ ~explicit
        => StoreGet(store, q.setCookie).userId = LoadedUserId(q)

ResolverOptions == [explicit : BOOLEAN, store : BOOLEAN]

\* A store holding the session of a logged-in user.
ResolveStores ==
  {[i \in {OldId} |->
      [data |-> [a |-> "x"], flash |-> EmptyMap, userId |-> "alice",
       lastSeenAt |-> 0, ua |-> "Chrome", ip |-> Undef]]}

ResolveInit ==
  /\ trackUserAgent \in BOOLEAN
  /\ trackIp = FALSE
  /\ resolvers \in ResolverOptions
  /\ sharing = FALSE
  /\ tokenOptions = NoTokens
  /\ now = 0
  /\ cookieOptions = NoCookieOptions
  /\ ipHeader = Unset
  /\ store \in ResolveStores
  /\ nextId = 1
  /\ req = [r \in Requests |-> IdleRequest]
  /\ hist = EmptyMap
  /\ loggedInFrom = {}

\* The requests of handlers that change the identity only.
ResolveNext ==
  \/ Expire
  \/ \E r \in Requests :
       \/ Receive(r)
       \/ Hydrate(r)
       \/ Login(r)
       \/ Logout(r)
       \/ Return(r)
       \/ Save(r)
       \/ Complete(r)

ResolveSpec == ResolveInit /\ [][ResolveNext]_vars

\* The userId of the record the handler is to work on: the loaded one's,
\* unless the User-Agent check ended that session.
WorkingUserId(q) ==
  IF Mismatch(q) /\ IsCurrentShape(q.presented) THEN Undef ELSE LoadedUserId(q)

\* C16: once a request is with its handler, options.resolveUser, when
\* configured, is the resolver that was invoked and the store's was not;
\* otherwise the store's resolveUser was invoked exactly when the store has
\* one and the loaded record has a userId; ctx.state.user is set exactly when
\* the invoked resolver returned a value, to that value, and ctx.state.userId
\* is assigned only then, the record's userId.
C16_ResolutionPrecedence ==
  \A r \in Requests :
    LET q == req[r]
    IN q.pc \in {"handler", "post", "done"}
       => /\ resolvers.explicit => q.invoked = "explicit"
          /\ ~resolvers.explicit
             => (q.invoked = "store" <=> resolvers.store /\ WorkingUserId(q) # Undef)
                /\ q.invoked \in {"store", "none"}
          /\ q.user # Undef <=> q.invoked # "none" /\ q.result # Undef
          /\ q.user # Undef => q.user = q.result
          /\ q.userIdSet => q.user # Undef /\ q.userId = WorkingUserId(q)
          /\ ~q.userIdSet => q.userId = Undef

\* With both resolvers present and a logged-in session, options.resolveUser
\* resolved the user.
C16_Witness ==
  \E r \in Requests :
    LET q == req[r]
    IN /\ Entered(q) /\ resolvers.explicit /\ resolvers.store
       /\ WorkingUserId(q) = "alice" /\ q.invoked = "explicit"
       /\ q.user = "Alice" /\ q.userIdSet /\ q.userId = "alice"

\* ------------------------------------------------- C18, C19: failing calls

\* A middleware that notes the rejection and carries on.
Rejected_Retried(q, what) == [q EXCEPT !.error = what]

\* An awaited call rejects (lines 222, 237, 269, 332, 369: none is inside a
\* try): the middleware call rejects with the same error and runs no further.
Rejected(q, what) == [q EXCEPT !.pc = "failed", !.error = what]

\* Line 332: the handler throws, or the promise ctx.next() returned rejects.
Throw(r) ==
  /\ req[r].pc = "handler"
  /\ req' = [req EXCEPT ![r] = Rejected(@, "next")]
  /\ UNCHANGED <<store, nextId, trackUserAgent, trackIp, resolvers, sharing, tokenOptions, now, cookieOptions, ipHeader, hist, loggedInFrom>>

\* The stores whose operations can throw: the ones that reach a database
\* (KvDexSessionStorage.set throws when the write is not ok).  The Map
\* operations of MemorySessionStorage do not throw.
CanFail == ~sharing

\* Line 237: store.get(sessionId) throws.
GetFails(r) ==
  /\ CanFail
  /\ req[r].pc = "hydrate"
  /\ req[r].sessionId # NoId
  /\ req' = [req EXCEPT ![r] = Rejected([@ EXCEPT !.storeOps = @ \cup {"get"}], "get")]
  /\ UNCHANGED <<store, nextId, trackUserAgent, trackIp, resolvers, sharing, tokenOptions, now, cookieOptions, ipHeader, hist, loggedInFrom>>

\* Line 222 reached from line 246: the record is found, its User-Agent differs,
\* and the store.delete of logout() throws.
InvalidateFails(r) ==
  /\ CanFail
  /\ req[r].pc = "hydrate"
  /\ LET q == req[r]
         c == q.sessionId
     IN /\ c # NoId /\ StoreHas(store, c) /\ IsCurrentShape(StoreGet(store, c))
        /\ SessionInvalid(trackUserAgent, StoreGet(store, c), q.currentUa, q.currentIp)
        /\ req' = [req EXCEPT ![r] = Rejected([q EXCEPT !.storedSession = StoreGet(store, c),
                                                          !.storeOps = @ \cup {"get", "delete"}],
                                              "delete")]
  /\ UNCHANGED <<store, nextId, trackUserAgent, trackIp, resolvers, sharing, tokenOptions, now, cookieOptions, ipHeader, hist, loggedInFrom>>

\* Lines 222 and 269 reached from the handler: the store.delete of login() or
\* logout() throws before anything was assigned, the call rejects, and the
\* handler lets the rejection pass.
HandlerDeleteFails(r) ==
  /\ CanFail
  /\ CanCall(r)
  /\ \E op \in {"login", "logout"} :
       req' = [req EXCEPT ![r] =
          Rejected([Called(@, op, Undef, Undef) EXCEPT !.storeOps = @ \cup {"delete"}],
                   "delete")]
  /\ UNCHANGED <<store, nextId, trackUserAgent, trackIp, resolvers, sharing, tokenOptions, now, cookieOptions, ipHeader, hist, loggedInFrom>>

\* Line 338: the handler changed ctx.state.sessionId and the store.delete of
\* rotateSession throws.
RotateFails(r) ==
  /\ CanFail
  /\ req[r].pc = "post"
  /\ RotationRequested(req[r].ctxSessionId, req[r].sessionId)
  /\ req' = [req EXCEPT ![r] = Rejected([@ EXCEPT !.storeOps = @ \cup {"delete"}], "delete")]
  /\ UNCHANGED <<store, nextId, trackUserAgent, trackIp, resolvers, sharing, tokenOptions, now, cookieOptions, ipHeader, hist, loggedInFrom>>

\* Line 369: store.set throws, after the rotation and the merge of lines 337-363.
SetFails(r) ==
  /\ CanFail
  /\ req[r].pc = "post"
  /\ LET q == req[r]
         rotate == RotationRequested(q.ctxSessionId, q.sessionId)
         sid == SavedId(rotate, q.sessionId, q.ctxSessionId, nextId)
         merged == [q.storedSession EXCEPT
                      !.flash = PerformFlashCleanup(@, q.consumedFlash, q.newFlash)]
         ss == Tracked(merged, trackUserAgent, q.currentUa, trackIp, q.currentIp)
     IN /\ rotate => CanIssue
        /\ nextId' = IF rotate THEN nextId + 1 ELSE nextId
        /\ store' = IF rotate THEN RotateDelete(store, q.initialSessionId) ELSE store
        /\ req' = [req EXCEPT ![r] =
              Rejected([q EXCEPT !.sessionId = sid, !.ctxSessionId = sid,
                          !.storedSession = ss, !.rotated = rotate,
                          !.sets = @ + 1, !.setKey = sid,
                          !.storeOps = @ \cup {"set"}
                                         \cup (IF rotate THEN {"delete"} ELSE {})], "set")]
  /\ UNCHANGED <<trackUserAgent, trackIp, resolvers, sharing, tokenOptions, now, cookieOptions, ipHeader, hist, loggedInFrom>>

\* The rejection has reached the caller; the slot is free again.
Propagate(r) ==
  /\ req[r].pc = "failed"
  /\ req' = [req EXCEPT ![r] = IdleRequest]
  /\ UNCHANGED <<store, nextId, trackUserAgent, trackIp, resolvers, sharing, tokenOptions, now, cookieOptions, ipHeader, hist, loggedInFrom>>

\* A deployment over either kind of store: one that hands out and keeps the
\* caller's objects (MemorySessionStorage), or one that serialises them.
FailInit ==
  /\ trackUserAgent \in BOOLEAN
  /\ trackIp = FALSE
  /\ resolvers = NoResolvers
  /\ sharing \in BOOLEAN
  /\ tokenOptions = NoTokens
  /\ now = 0
  /\ cookieOptions = NoCookieOptions
  /\ ipHeader = Unset
  /\ store \in InitialStores
  /\ nextId = 1
  /\ req = [r \in Requests |-> IdleRequest]
  /\ hist = EmptyMap
  /\ loggedInFrom = {}

\* The requests of handlers that write the session, stage flash, change the
\* identity or the ID, and may throw, over stores that may throw.
FailNext ==
  \/ Expire
  \/ \E r \in Requests :
       \/ Receive(r)
       \/ GetFails(r)
       \/ InvalidateFails(r)
       \/ Hydrate(r)
       \/ WriteSession(r)
       \/ FlashSet(r)
       \/ Login(r)
       \/ Logout(r)
       \/ SetSessionId(r)
       \/ HandlerDeleteFails(r)
       \/ Throw(r)
       \/ Return(r)
       \/ RotateFails(r)
       \/ SetFails(r)
       \/ Save(r)
       \/ Complete(r)
       \/ Propagate(r)

FailSpec == FailInit /\ [][FailNext]_vars

\* The middleware call of the request rejected because ctx.next() did.
NextThrew(q) == q.pc = "failed" /\ q.error = "next"

\* No store.set ran for the request and its response carries no cookie: no
\* record lies under an ID issued during it.
PersistenceSkipped(q) ==
  /\ q.sets = 0
  /\ q.setCookie = NoId
  /\ \A id \in q.issuedFrom..(nextId - 1) : ~StoreHas(store, id)

\* C18 as stated: when ctx.next() throws, store.set is not invoked, no session
\* cookie is written, the call rejects, and what the handler changed is lost:
\* the record a later request finds under the presented ID is the one this
\* request found.
C18_AsStated ==
  \A r \in Requests :
    LET q == req[r]
    IN NextThrew(q)
       => /\ PersistenceSkipped(q)
          /\ q.live /\ StoreHas(store, q.cookie) => StoreGet(store, q.cookie) = q.presented

\* C18, the part the code keeps: when ctx.next() throws, the call rejects
\* without store.set and without a cookie, and on a store that serialises its
\* values the record under the presented ID is the one the request found.
C18_ThrowSkipsPersistence ==
  \A r \in Requests :
    LET q == req[r]
    IN NextThrew(q)
       => /\ PersistenceSkipped(q)
          /\ ~sharing /\ q.live /\ StoreHas(store, q.cookie)
             => StoreGet(store, q.cookie) = q.presented

\* The handler wrote a key of a stored session and then threw.
C18_Witness ==
  \E r \in Requests :
    LET q == req[r]
    IN /\ NextThrew(q) /\ q.live /\ q.written # {}
       /\ ~q.calledLogin /\ ~q.calledLogout
       /\ StoreHas(store, q.cookie)

\* A storage operation of the request threw.
StoreThrew(q) == q.error \in {"get", "set", "delete"}

\* C19: when store.get, store.set or store.delete throws, the middleware call
\* rejects with that error and goes no further: the operation is not tried
\* again (store.set ran once when it threw, never otherwise), no cookie is
\* written, and after a failing store.get ctx.next() is never invoked.
C19_StorageFailurePropagates ==
  \A r \in Requests :
    LET q == req[r]
    IN StoreThrew(q)
       => /\ q.pc = "failed"
          /\ q.setCookie = NoId
          /\ q.sets = (IF q.error = "set" THEN 1 ELSE 0)
          /\ q.error = "get" => ~q.nextCalled /\ q.calls = 0

\* store.get threw for a request that presented the ID of a stored session.
C19_Witness ==
  \E r \in Requests :
    LET q == req[r]
    IN q.error = "get" /\ q.pc = "failed" /\ q.live /\ ~q.nextCalled

\* ------------------------------------------------- C20: overlapping requests

\* Two requests in flight at once.
Overlapping == {"r1", "r2"}

\* A request arrives whatever the other is doing.
ReceiveOverlapping(r) ==
  \E c \in Presentable, ua \in UserAgents, ip \in Ips : Arrive(r, c, ua, Undef, ip)

\* A store that serialises its values (Deno KV, kvdex), holding one session;
\* tracking off.
RaceInit ==
  /\ trackUserAgent = FALSE
  /\ trackIp = FALSE
  /\ resolvers = NoResolvers
  /\ sharing = FALSE
  /\ tokenOptions = NoTokens
  /\ now = 0
  /\ cookieOptions = NoCookieOptions
  /\ ipHeader = Unset
  /\ store = [i \in {OldId} |->
                [data |-> [a |-> "x"], flash |-> EmptyMap, userId |-> "alice",
                 lastSeenAt |-> 0, ua |-> Undef, ip |-> Undef]]
  /\ nextId = 1
  /\ req = [r \in Overlapping |-> IdleRequest]
  /\ hist = EmptyMap
  /\ loggedInFrom = {}

\* Each of the two requests runs the middleware once, its steps interleaved
\* with the other's at every await.
RaceNext ==
  \E r \in Overlapping :
    \/ ReceiveOverlapping(r)
    \/ Hydrate(r)
    \/ WriteSession(r)
    \/ FlashSet(r)
    \/ Login(r)
    \/ Logout(r)
    \/ Return(r)
    \/ Save(r)

RaceSpec == RaceInit /\ [][RaceNext]_vars

\* The request has responded and its store.set is the latest so far.
SetLast(q) == q.pc = "done" /\ q.setAt = LatestSetAt

\* Every request in flight has responded.
AllResponded == \A r \in Overlapping : req[r].pc \in {"idle", "done"}

\* C20 as stated: once two requests that presented the same ID of a stored
\* session have both responded, the record stored under that ID is the working
\* record of the one whose store.set came last.
C20_AsStated ==
  \A r \in Overlapping, o \in Overlapping :
    LET q == req[r]
        p == req[o]
    IN r # o /\ q.pc = "done" /\ p.pc = "done" /\ q.cookie = p.cookie /\ q.live /\ p.live
       /\ SetLast(p)
       => StoreHas(store, p.cookie) /\ StoreGet(store, p.cookie) = p.storedSession

\* C20: requests that overlap do not fail, and once they have responded the
\* record stored under the ID of the latest store.set is the working record of
\* the request that made it, whatever the others had stored; that ID is the
\* one the requests presented when that request found the record and neither
\* logged in or out nor changed the ID.
C20_LastSetWins ==
  \A r \in Overlapping :
    LET q == req[r]
    IN /\ q.error = "none"
       /\ SetLast(q) /\ AllResponded
          => /\ StoreHas(store, q.setKey) /\ StoreGet(store, q.setKey) = q.storedSession
             /\ q.found \in {"current", "legacy"} /\ ~q.calledLogin /\ ~q.calledLogout
                /\ ~q.rotated
                => q.setKey = q.cookie

\* Two requests presented the same stored session and ran at once; one wrote a
\* key, the other wrote nothing and saved last: the stored record has the
\* value from before the write.
C20_Witness ==
  \E r \in Overlapping, o \in Overlapping :
    LET q == req[r]
        p == req[o]
    IN /\ r # o /\ q.pc = "done" /\ p.pc = "done"
       /\ q.cookie = OldId /\ p.cookie = OldId
       /\ q.setKey = OldId /\ p.setKey = OldId
       /\ q.setAt < p.setAt /\ SetLast(p)
       /\ q.written = {"a"} /\ q.ctxSession["a"] = "y" /\ p.written = {}
       /\ StoreGet(store, OldId).data["a"] = "x"

\* ------------------------------------------- C11, C12: stateless API tokens

\* The longest token header value a request carries.
MaxLen == 2

\* The characters of a header value: "B" stands for the default prefix
\* ("Bearer "), "X" for a custom one, "t" and "u" for token text.
Chars == {"B", "X", "t", "u"}

\* The header values a request can carry: the strings of up to MaxLen characters.
HeaderValues == UNION {[1..n -> Chars] : n \in 0..MaxLen}

\* The header names a request can carry a token under.
HeaderNames == {"authorization", "x-api-key"}

\* The options a deployment can give: verifyToken or not, tokenHeader not
\* given or a custom name, tokenPrefix not given, null, or a custom prefix.
TokenOptions ==
  [verifyToken : BOOLEAN,
   tokenHeader : {"unset", "x-api-key"},
   tokenPrefix : {[kind |-> "unset", value |-> <<>>], [kind |-> "null", value |-> <<>>],
                  [kind |-> "given", value |-> CustomPrefix]}]

\* tokenHeader, default "Authorization".
TokenHeader(opts) ==
  IF opts.tokenHeader = "unset" THEN "authorization" ELSE opts.tokenHeader

\* Whether a prefix is stripped, and which: tokenPrefix, default "Bearer ",
\* null for none.
HasPrefix(opts) == opts.tokenPrefix.kind # "null"

TokenPrefix(opts) ==
  IF opts.tokenPrefix.kind = "unset" THEN DefaultPrefix ELSE opts.tokenPrefix.value

\* value.startsWith(prefix)
StartsWith(value, prefix) ==
  Len(value) >= Len(prefix) /\ SubSeq(value, 1, Len(prefix)) = prefix

\* Whether the header value yields a token: always without a prefix, else only
\* when the value starts with the prefix.
TokenFound(opts, value) == ~HasPrefix(opts) \/ StartsWith(value, TokenPrefix(opts))

\* An extraction that hands the whole header value on.
ExtractToken_Raw(opts, value) == value

\* The token: the header value, without the prefix when one is configured.
ExtractToken(opts, value) ==
  IF HasPrefix(opts) /\ StartsWith(value, TokenPrefix(opts))
  THEN SubSeq(value, Len(TokenPrefix(opts)) + 1, Len(value))
  ELSE value

\* The verifyToken of the deployment: the user for the one valid token,
\* undefined for any other.
VerifyToken(token) == IF token = <<"t">> THEN "api-user" ELSE Undef

\* A stateless branch that saves a session and sets the cookie all the same.
StatelessResponse_Persisted(q, id) ==
  [q EXCEPT !.pc = "done", !.setCookie = id, !.sets = @ + 1, !.storeOps = @ \cup {"set"}]

\* The stateless branch returns the response of next() as it is.
StatelessResponse(q, id) == [q EXCEPT !.pc = "done"]

\* A request arrives, with or without a session cookie, with or without a
\* value under one of the header names.
ReceiveWithHeader(r) ==
  /\ Sequential(r)
  /\ req[r].pc = "idle"
  /\ \E c \in Presentable, name \in HeaderNames \cup {Undef}, value \in HeaderValues :
       /\ StoreHas(store, c) \/ Cardinality(DOMAIN store) < MaxSessions
       /\ name = Undef => value = <<>>
       /\ req' = [req EXCEPT ![r] =
             [IdleRequest EXCEPT !.pc = "token", !.cookie = c, !.sessionId = c,
                !.headerName = name, !.headerValue = value,
                !.live = StoreHas(store, c),
                !.presented = IF StoreHas(store, c) THEN StoreGet(store, c) ELSE EmptyMap]]
  /\ hist' = EmptyMap
  /\ UNCHANGED <<store, nextId, trackUserAgent, trackIp, resolvers, sharing, tokenOptions, now, cookieOptions, ipHeader, loggedInFrom>>

\* The stateless branch: with verifyToken configured and the token header
\* present, extract the token and verify it; a verified user is put on
\* ctx.state with an empty session and the handler runs without any session
\* logic; otherwise the request goes on to the session logic.
Authenticate(r) ==
  /\ req[r].pc = "token"
  /\ LET q == req[r]
         carried == tokenOptions.verifyToken /\ q.headerName = TokenHeader(tokenOptions)
         called == carried /\ TokenFound(tokenOptions, q.headerValue)
         token == ExtractToken(tokenOptions, q.headerValue)
         verified == IF called THEN VerifyToken(token) ELSE Undef
     IN req' = [req EXCEPT ![r] =
           IF verified # Undef
           THEN [q EXCEPT !.pc = "api", !.stateless = TRUE, !.verifyCalled = TRUE,
                   !.token = token, !.user = verified, !.ctxSession = EmptyMap,
                   !.op = "enter", !.nextCalled = TRUE]
           ELSE [q EXCEPT !.pc = "hydrate", !.verifyCalled = called,
                   !.token = IF called THEN token ELSE <<>>]]
  /\ UNCHANGED <<store, nextId, trackUserAgent, trackIp, resolvers, sharing, tokenOptions, now, cookieOptions, ipHeader, hist, loggedInFrom>>

\* The handler of a stateless request writes ctx.state.session.
StatelessWrite(r) ==
  /\ req[r].pc = "api"
  /\ req[r].calls < MaxCalls
  /\ \E k \in DataKeys, v \in Vals :
       req' = [req EXCEPT ![r] =
          [Called(@, "write", k, Undef) EXCEPT !.ctxSession = Put(@, k, v),
             !.written = @ \cup {k}]]
  /\ UNCHANGED <<store, nextId, trackUserAgent, trackIp, resolvers, sharing, tokenOptions, now, cookieOptions, ipHeader, hist, loggedInFrom>>

\* next() resolves and its response is returned.
StatelessReturn(r) ==
  /\ req[r].pc = "api"
  /\ req' = [req EXCEPT ![r] = StatelessResponse(@, nextId)]
  /\ UNCHANGED <<store, nextId, trackUserAgent, trackIp, resolvers, sharing, tokenOptions, now, cookieOptions, ipHeader, hist, loggedInFrom>>

\* A deployment with any of the token options over a store holding one session.
TokenInit ==
  /\ trackUserAgent = FALSE
  /\ trackIp = FALSE
  /\ resolvers = NoResolvers
  /\ sharing = FALSE
  /\ tokenOptions \in TokenOptions
  /\ now = 0
  /\ cookieOptions = NoCookieOptions
  /\ ipHeader = Unset
  /\ store = [i \in {OldId} |->
                [data |-> [a |-> "x"], flash |-> EmptyMap, userId |-> "alice",
                 lastSeenAt |-> 0, ua |-> Undef, ip |-> Undef]]
  /\ nextId = 1
  /\ req = [r \in Requests |-> IdleRequest]
  /\ hist = EmptyMap
  /\ loggedInFrom = {}

\* Requests served statelessly or, failing that, with a session.
TokenNext ==
  \E r \in Requests :
    \/ ReceiveWithHeader(r)
    \/ Authenticate(r)
    \/ StatelessWrite(r)
    \/ StatelessReturn(r)
    \/ Hydrate(r)
    \/ WriteSession(r)
    \/ Return(r)
    \/ Save(r)
    \/ Complete(r)

TokenSpec == TokenInit /\ [][TokenNext]_vars

\* The header value of the request under the configured token header.
Carried(q) == tokenOptions.verifyToken /\ q.headerName = TokenHeader(tokenOptions)

\* The request carries a token that verifyToken accepts.
AcceptedToken(q) ==
  /\ Carried(q)
  /\ \/ /\ ~HasPrefix(tokenOptions)
        /\ VerifyToken(q.headerValue) # Undef
     \/ /\ HasPrefix(tokenOptions)
        /\ \E t \in HeaderValues :
             q.headerValue = TokenPrefix(tokenOptions) \o t /\ VerifyToken(t) # Undef

\* C11: a request that carries an accepted token under the configured header,
\* verifyToken being configured, is served statelessly: its handler is entered
\* with the verified user and an empty session, its response carries no session
\* cookie, and none of store.get, store.set and store.delete is invoked for
\* it, whatever its handler wrote and whatever cookie it presented.
C11_StatelessBypass ==
  \A r \in Requests :
    LET q == req[r]
    IN AcceptedToken(q) /\ q.pc \in {"api", "done"}
       => /\ q.stateless
          /\ q.user = "api-user"
          /\ q.op = "enter" => q.ctxSession = EmptyMap
          /\ q.setCookie = NoId
          /\ q.sets = 0
          /\ q.storeOps = {}
          /\ q.live => StoreHas(store, q.cookie) /\ StoreGet(store, q.cookie) = q.presented

\* A request with an accepted token and the cookie of a stored session has
\* responded after its handler wrote the session.
C11_Witness ==
  \E r \in Requests :
    LET q == req[r]
    IN AcceptedToken(q) /\ q.pc = "done" /\ q.live /\ q.written # {}

\* C12: the token verifyToken is called with is the header value without the
\* configured prefix (the prefix followed by the token is the header value;
\* "Bearer " when tokenPrefix is not given), under the configured header
\* (Authorization when tokenHeader is not given); with tokenPrefix null it is
\* the header value itself; and when a prefix is configured and the value does
\* not start with it, verifyToken is not called and the request is served with
\* a session.
C12_TokenExtraction ==
  \A r \in Requests :
    LET q == req[r]
    IN q.pc \notin {"idle", "token"}
       => /\ q.verifyCalled
             => /\ Carried(q)
                /\ HasPrefix(tokenOptions)
                   => TokenPrefix(tokenOptions) \o q.token = q.headerValue
                /\ ~HasPrefix(tokenOptions) => q.token = q.headerValue
          /\ tokenOptions.tokenPrefix.kind = "unset" /\ q.verifyCalled
             => Head(q.headerValue) = "B"
          /\ tokenOptions.tokenHeader = "unset" /\ q.verifyCalled
             => q.headerName = "authorization"
          /\ Carried(q) /\ HasPrefix(tokenOptions)
             /\ ~(\E t \in HeaderValues : q.headerValue = TokenPrefix(tokenOptions) \o t)
             => ~q.verifyCalled /\ ~q.stateless
          /\ Carried(q) /\ ~HasPrefix(tokenOptions) => q.verifyCalled

\* With the default prefix, a request carried the prefix followed by the valid
\* token and was served statelessly.
C12_Witness ==
  \E r \in Requests :
    LET q == req[r]
    IN /\ tokenOptions.tokenPrefix.kind = "unset" /\ q.pc = "done" /\ q.stateless
       /\ q.headerValue = <<"B", "t">> /\ q.token = <<"t">>

\* ---------------------------------------------- C21: one ID for a session

\* The request found the session under the presented ID and left that ID by
\* login(), logout() or a rotation.
LeftId(q) ==
  /\ q.found \in {"current", "legacy"}
  /\ q.calledLogin \/ q.calledLogout \/ q.rotated

\* C21 as stated: under any interleaving, once a request has rotated a
\* session to a new ID or logged it out, no record is stored under the old ID:
\* not next to the record under the new ID, and not by a later store.set.
C21_AsStated ==
  \A r \in Overlapping :
    LET q == req[r]
    IN q.pc = "done" /\ LeftId(q) => ~StoreHas(store, q.initialSessionId)

\* C21, for a request that runs alone on its session: once it has responded
\* after leaving the presented ID, no record is stored under that ID.
C21_AloneOneId ==
  \A r \in Overlapping :
    LET q == req[r]
    IN q.pc = "done" /\ LeftId(q)
       /\ (\A o \in Overlapping \ {r} : req[o].cookie # q.cookie)
       => ~StoreHas(store, q.initialSessionId)

\* A request logged in and saved under its new ID, and the record under the
\* ID it left is stored again, next to the new one.
C21_Witness ==
  \E r \in Overlapping :
    LET q == req[r]
    IN /\ q.pc = "done" /\ LeftId(q) /\ q.calledLogin
       /\ StoreHas(store, q.setKey) /\ StoreHas(store, q.initialSessionId)
       /\ q.setKey # q.initialSessionId

\* ------------------------------------------------ C22: the storage adapters

\* The latest time the clock reaches.
MaxTime == 2

\* The adapters: MemorySessionStorage, DenoKvSessionStorage, KvDexSessionStorage.
Adapters == {"memory", "denokv", "kvdex"}

\* The session IDs and the values the adapters are used with.
AdapterIds == {1, 2}
AdapterValues == {EmptyMap, [a |-> "x"], [b |-> "y"], [a |-> "y", b |-> "x"]}

\* undefined, as get() returns it.
NoValue == [undefined |-> TRUE]

\* MemorySessionStorage.get: Map.get.
MemoryGet(s, id) == IF StoreHas(s, id) THEN StoreGet(s, id) ELSE NoValue

\* [...this.prefix, sessionId], prefix ["session"].
KvKey(id) == <<"session", id>>

\* DenoKvSessionStorage.get: res.value || undefined (a stored object is truthy).
DenoKvGet(kv, id) == IF KvKey(id) \in DOMAIN kv THEN kv[KvKey(id)] ELSE NoValue

\* DenoKvSessionStorage.set: kv.set(key, data).
DenoKvSet(kv, id, data) == Put(kv, KvKey(id), data)

\* DenoKvSessionStorage.delete: kv.delete(key).
DenoKvDelete(kv, id) == [x \in (DOMAIN kv) \ {KvKey(id)} |-> kv[x]]

\* KvDexSessionStorage.get: the data of the document, or undefined.
KvDexGet(c, id) == IF id \in DOMAIN c THEN c[id].data ELSE NoValue

\* The default lifetime of a document (a year), in the clock's units.
Year == 10

\* expiresAt: now + expireAfter when the option is given, else a year from now.
ExpiresAt(t, expireAfter) == t + Coalesce(expireAfter, Year)

\* A set() that updates the document, keeping the fields the payload lacks.
KvDexSet_Merged(c, id, payload, t, expireAfter) ==
  LET old == IF id \in DOMAIN c THEN c[id].data ELSE EmptyMap
  IN Put(c, id, [createdAt |-> IF id \in DOMAIN c THEN c[id].createdAt ELSE t,
                 updatedAt |-> t, expiresAt |-> ExpiresAt(t, expireAfter),
                 data |-> [k \in (DOMAIN old) \cup (DOMAIN payload) |->
                             IF k \in DOMAIN payload THEN payload[k] ELSE old[k]]])

\* A set() that stamps every document it writes as new.
KvDexSet_Fresh(c, id, payload, t, expireAfter) ==
  Put(c, id, [createdAt |-> t, updatedAt |-> t,
              expiresAt |-> ExpiresAt(t, expireAfter), data |-> payload])

\* KvDexSessionStorage.set: a document {createdAt, updatedAt, expiresAt, data}
\* written with overwrite: true; createdAt is the existing document's when
\* there is one.
KvDexSet(c, id, payload, t, expireAfter) ==
  Put(c, id, [createdAt |-> IF id \in DOMAIN c THEN c[id].createdAt ELSE t,
              updatedAt |-> t, expiresAt |-> ExpiresAt(t, expireAfter),
              data |-> payload])

\* KvDexSessionStorage.delete: collection.delete(id).
KvDexDelete(c, id) == [x \in (DOMAIN c) \ {id} |-> c[x]]

AdapterGet(a, s, id) ==
  IF a = "memory" THEN MemoryGet(s, id)
  ELSE IF a = "denokv" THEN DenoKvGet(s, id) ELSE KvDexGet(s, id)

AdapterSet(a, s, id, value, t) ==
  IF a = "memory" THEN StoreSet(s, id, value)
  ELSE IF a = "denokv" THEN DenoKvSet(s, id, value)
  ELSE KvDexSet(s, id, value, t, Unset)

AdapterDelete(a, s, id) ==
  IF a = "memory" THEN StoreDelete(s, id)
  ELSE IF a = "denokv" THEN DenoKvDelete(s, id) ELSE KvDexDelete(s, id)

\* The adapter in use and its latest operation: what it was, on which ID, with
\* which value, and the backend before it.
Operated(a, op, id, value, before) ==
  [adapter |-> a, op |-> op, id |-> id, value |-> value, before |-> before]

\* store.set(id, value)
AdapterSetCall ==
  /\ \E id \in AdapterIds, v \in AdapterValues :
       /\ store' = AdapterSet(hist.adapter, store, id, v, now)
       /\ hist' = Operated(hist.adapter, "set", id, v, store)
  /\ UNCHANGED <<nextId, trackUserAgent, trackIp, resolvers, sharing, tokenOptions, now, cookieOptions, ipHeader, req,
                 loggedInFrom>>

\* store.delete(id)
AdapterDeleteCall ==
  /\ \E id \in AdapterIds :
       /\ store' = AdapterDelete(hist.adapter, store, id)
       /\ hist' = Operated(hist.adapter, "delete", id, NoValue, store)
  /\ UNCHANGED <<nextId, trackUserAgent, trackIp, resolvers, sharing, tokenOptions, now, cookieOptions, ipHeader, req,
                 loggedInFrom>>

\* Time passes.
Tick ==
  /\ now < MaxTime
  /\ now' = now + 1
  /\ UNCHANGED <<store, nextId, trackUserAgent, trackIp, resolvers, sharing, tokenOptions,
                 cookieOptions, ipHeader, req, hist, loggedInFrom>>

\* One of the adapters over an empty backend.
AdapterInit ==
  /\ trackUserAgent = FALSE
  /\ trackIp = FALSE
  /\ resolvers = NoResolvers
  /\ sharing = FALSE
  /\ tokenOptions = NoTokens
  /\ now = 0
  /\ cookieOptions = NoCookieOptions
  /\ ipHeader = Unset
  /\ store = EmptyMap
  /\ nextId = 1
  /\ req = [r \in Requests |-> IdleRequest]
  /\ \E a \in Adapters : hist = Operated(a, "none", NoId, NoValue, EmptyMap)
  /\ loggedInFrom = {}

AdapterNext == AdapterSetCall \/ AdapterDeleteCall \/ Tick

AdapterSpec == AdapterInit /\ [][AdapterNext]_vars

\* C22: with each adapter, get(id) after set(id, r) returns r and nothing of
\* the value stored before, get(id) after delete(id) returns undefined, and
\* get of every other ID returns what it returned before the operation.
C22_AdapterContract ==
  LET a == hist.adapter
  IN /\ hist.op = "set" => AdapterGet(a, store, hist.id) = hist.value
     /\ hist.op = "delete" => AdapterGet(a, store, hist.id) = NoValue
     /\ hist.op \in {"set", "delete"}
        => \A j \in AdapterIds \ {hist.id} :
             AdapterGet(a, store, j) = AdapterGet(a, hist.before, j)

\* kvdex: a value with two fields was replaced by a value with one of them.
C22_Witness ==
  /\ hist.adapter = "kvdex" /\ hist.op = "set"
  /\ AdapterGet("kvdex", hist.before, hist.id) = [a |-> "y", b |-> "x"]
  /\ hist.value = [a |-> "x"]
  /\ AdapterGet("kvdex", store, hist.id) = [a |-> "x"]

\* ---------------------------------------------------- C23: legacy migration

CookieOptionSets ==
  [name : {Unset, {"sid"}}, path : {Unset, {"/app"}, {""}},
   domain : {Unset, {"example.com"}},
   secure : {Unset, {TRUE}, {FALSE}}, httpOnly : {Unset, {TRUE}, {FALSE}},
   sameSite : {Unset, {"Strict"}, {"None"}},
   maxAge : {Unset, {0}, {60}}, expiry : {Unset, {30}}]

\* A deployment with any cookie options over a store holding one session.
CookieInit ==
  /\ trackUserAgent = FALSE
  /\ trackIp = FALSE
  /\ resolvers = NoResolvers
  /\ sharing = FALSE
  /\ tokenOptions = NoTokens
  /\ now = 0
  /\ cookieOptions \in CookieOptionSets
  /\ ipHeader = Unset
  /\ store = [i \in {OldId} |->
                [data |-> [a |-> "x"], flash |-> EmptyMap, userId |-> "alice",
                 lastSeenAt |-> 0, ua |-> Undef, ip |-> Undef]]
  /\ nextId = 1
  /\ req = [r \in Requests |-> IdleRequest]
  /\ hist = EmptyMap
  /\ loggedInFrom = {}

\* Requests with or without the session's cookie, whose handlers may log in.
CookieNext ==
  \E r \in Requests :
    \/ Receive(r)
    \/ Hydrate(r)
    \/ Login(r)
    \/ Return(r)
    \/ Save(r)
    \/ Complete(r)

CookieSpec == CookieInit /\ [][CookieNext]_vars

\* The attribute of the cookie, as the set of its values: empty when the
\* cookie does not carry it.
Attribute(cookie, attr) == IF attr \in DOMAIN cookie THEN {cookie[attr]} ELSE {}

\* The attribute is as configured, or the default when it is left out.
Carries(cookie, attr, default) ==
  Attribute(cookie, attr) = (IF cookieOptions[attr] = Unset THEN default ELSE cookieOptions[attr])

\* C24 as stated: the cookie set on the response carries the configured name,
\* path, domain, secure, httpOnly and sameSite, and for each one left out its
\* default: sessionId, /, no domain, true, true, Lax.
C24_AsStated ==
  \A r \in Requests :
    LET c == req[r].responseCookie
    IN Responded(req[r])
       => /\ Carries(c, "name", {"sessionId"})
          /\ Carries(c, "path", {"/"})
          /\ Carries(c, "domain", {})
          /\ Carries(c, "secure", {TRUE})
          /\ Carries(c, "httpOnly", {TRUE})
          /\ Carries(c, "sameSite", {"Lax"})

\* C24, what the code does: the cookie carries the configured name, secure,
\* httpOnly and sameSite, and the configured path unless it is the empty
\* string, with the stated defaults; it never carries a domain.
C24_AttributesButDomain ==
  \A r \in Requests :
    LET c == req[r].responseCookie
    IN Responded(req[r])
       => /\ Carries(c, "name", {"sessionId"})
          /\ cookieOptions.path # {""} => Carries(c, "path", {"/"})
          /\ cookieOptions.path = {""} => c.path = "/"
          /\ Attribute(c, "domain") = {}
          /\ Carries(c, "secure", {TRUE})
          /\ Carries(c, "httpOnly", {TRUE})
          /\ Carries(c, "sameSite", {"Lax"})

\* A deployment configured a cookie domain and a request has responded.
C24_Witness ==
  \E r \in Requests :
    /\ Responded(req[r]) /\ cookieOptions.domain = {"example.com"}
    /\ req[r].responseCookie.value = req[r].setKey

\* C25: the cookie's maxAge is cookie.maxAge when that is configured (0
\* included), else expiry when that is configured, else it is not set.
C25_MaxAgePrecedence ==
  \A r \in Requests :
    LET c == req[r].responseCookie
    IN Responded(req[r])
       => /\ cookieOptions.maxAge # Unset => c.maxAge = cookieOptions.maxAge
          /\ cookieOptions.maxAge = Unset /\ cookieOptions.expiry # Unset
             => c.maxAge = cookieOptions.expiry
          /\ cookieOptions.maxAge = Unset /\ cookieOptions.expiry = Unset
             => c.maxAge = {}

\* Both are configured, maxAge as 0, and the cookie's maxAge is 0.
C25_Witness ==
  \E r \in Requests :
    /\ Responded(req[r])
    /\ cookieOptions.maxAge = {0} /\ cookieOptions.expiry = {30}
    /\ req[r].responseCookie.maxAge = {0}

\* options.trackIp: not set, true, or an object naming a header.
IpTracking == {<<FALSE, Unset>>, <<TRUE, Unset>>, <<TRUE, {"x-forwarded-for"}>>}

\* A deployment with any tracking options over a store holding one session
\* that was last seen at time 0 from another address.
TrackInit ==
  /\ trackUserAgent \in BOOLEAN
  /\ \E t \in IpTracking : trackIp = t[1] /\ ipHeader = t[2]
  /\ resolvers = NoResolvers
  /\ sharing = FALSE
  /\ tokenOptions = NoTokens
  /\ now = 0
  /\ cookieOptions = NoCookieOptions
  /\ store = [i \in {OldId} |->
                [data |-> [a |-> "x"], flash |-> EmptyMap, userId |-> "alice",
                 lastSeenAt |-> 0, ua |-> "Chrome", ip |-> "7.7.7.7"]]
  /\ nextId = 1
  /\ req = [r \in Requests |-> IdleRequest]
  /\ hist = EmptyMap
  /\ loggedInFrom = {}

\* A request from any address, each header it carries absent, empty or a value.
ReceiveSignals(r) ==
  /\ Sequential(r)
  /\ \E c \in Presentable, ua \in {Undef, ""} \cup UserAgents,
        forwarded \in {Undef, "", "9.9.9.9"}, ip \in Ips :
       Arrive(r, c, ua, forwarded, ip)

\* Requests over time, whose handlers may log in.
TrackNext ==
  \/ Tick
  \/ \E r \in Requests :
       \/ ReceiveSignals(r)
       \/ Hydrate(r)
       \/ Login(r)
       \/ Return(r)
       \/ Save(r)
       \/ Complete(r)

TrackSpec == TrackInit /\ [][TrackNext]_vars

\* The record a responded request persisted.
Persisted(q) == StoreGet(store, q.setKey)

\* C26 as stated: on save the persisted ua equals the request's User-Agent
\* when trackUserAgent is set, the persisted ip is the remote address hostname
\* when trackIp is true and the named header's value (never the remote address)
\* when trackIp names a header, and lastSeenAt is the time of the save.
C26_AsStated ==
  \A r \in Requests :
    LET q == req[r] IN
    Responded(q)
      => /\ trackUserAgent => Persisted(q).ua = q.userAgent
         /\ trackIp /\ ipHeader = Unset => Persisted(q).ip = q.remoteAddr
         /\ trackIp /\ ipHeader # Unset
            => Persisted(q).ip = q.forwarded /\ Persisted(q).ip # q.remoteAddr
         /\ Persisted(q).lastSeenAt = q.savedAt

\* C26, for headers as the middleware reads them: the same, where a header
\* that is absent or empty is persisted as undefined.
C26_SignalsCaptured ==
  \A r \in Requests :
    LET q == req[r]
        read(h) == IF h = "" THEN Undef ELSE h
    IN
    Responded(q)
      => /\ trackUserAgent => Persisted(q).ua = read(q.userAgent)
         /\ trackIp /\ ipHeader = Unset => Persisted(q).ip = q.remoteAddr
         /\ trackIp /\ ipHeader # Unset
            => Persisted(q).ip = read(q.forwarded) /\ Persisted(q).ip # q.remoteAddr
         /\ Persisted(q).lastSeenAt = q.savedAt

\* Under a deployment that tracks the User-Agent and reads the address from
\* a header, a request with the session's cookie is saved at a later time with
\* the header's address.
C26_Witness ==
  \E r \in Requests :
    LET q == req[r] IN
    /\ Responded(q) /\ trackUserAgent /\ trackIp /\ ipHeader # Unset
    /\ q.cookie = OldId /\ q.setKey = OldId
    /\ q.userAgent = "Chrome" /\ q.forwarded = "9.9.9.9"
    /\ Persisted(q).ip = "9.9.9.9" /\ q.savedAt = 2

\* A deployment over a store whose operations take time (Deno KV, kvdex),
\* holding one session of a logged-in user.
DetachInit ==
  /\ trackUserAgent = FALSE
  /\ trackIp = FALSE
  /\ resolvers = NoResolvers
  /\ sharing = FALSE
  /\ tokenOptions = NoTokens
  /\ now = 0
  /\ cookieOptions = NoCookieOptions
  /\ ipHeader = Unset
  /\ store = [i \in {OldId} |->
                [data |-> [a |-> "x"], flash |-> EmptyMap, userId |-> "alice",
                 lastSeenAt |-> 0, ua |-> Undef, ip |-> Undef]]
  /\ nextId = 1
  /\ req = [r \in Requests |-> IdleRequest]
  /\ hist = EmptyMap
  /\ loggedInFrom = {}

\* The handler calls ctx.state.logout() and goes on without awaiting it
\* (`ctx5.state.logout(); return Promise.resolve(new Response(...))`): logout
\* runs up to its await, line 222, where store.delete(sessionId) is issued.
LogoutDetached(r) ==
  /\ CanCall(r)
  /\ req[r].detached = "none"
  /\ req' = [req EXCEPT ![r] =
        [Called(@, "logout", Undef, Undef) EXCEPT
           !.detached = "issued", !.detachedId = req[r].sessionId,
           !.calledLogout = TRUE, !.storeOps = @ \cup {"delete"}]]
  /\ UNCHANGED <<store, nextId, trackUserAgent, trackIp, resolvers, sharing, tokenOptions, now, cookieOptions, ipHeader, hist, loggedInFrom>>

\* The store carries the delete out; its promise has not resolved yet.
DetachedApplied(r) ==
  /\ req[r].detached = "issued"
  /\ store' = LogoutDelete(store, req[r].detachedId)
  /\ req' = [req EXCEPT ![r] = [@ EXCEPT !.detached = "applied"]]
  /\ UNCHANGED <<nextId, trackUserAgent, trackIp, resolvers, sharing, tokenOptions, now, cookieOptions, ipHeader, hist, loggedInFrom>>

\* The promise of the delete resolves and logout() runs on, lines 224-233,
\* wherever the middleware is by then.
DetachedContinues(r) ==
  /\ req[r].detached = "applied"
  /\ CanIssue
  /\ LET q == req[r]
     IN req' = [req EXCEPT ![r] =
          [q EXCEPT !.sessionId = nextId, !.ctxSessionId = nextId,
             !.storedSession = NewStoredSession(q.currentUa, q.currentIp),
             !.ctxSession = EmptyMap, !.linked = FALSE, !.shared = "none",
             !.ops = Append(@, "delete"), !.loggedOutFrom = q.detachedId,
             !.detached = "finished"]]
  /\ nextId' = nextId + 1
  /\ UNCHANGED <<store, trackUserAgent, trackIp, resolvers, sharing, tokenOptions, now, cookieOptions, ipHeader, hist, loggedInFrom>>

\* One request whose handler writes, logs in or out, awaited or not, or
\* changes the session ID.
DetachNext ==
  \E r \in Requests :
    \/ Receive(r)
    \/ Hydrate(r)
    \/ WriteSession(r)
    \/ Login(r)
    \/ Logout(r)
    \/ LogoutDetached(r)
    \/ DetachedApplied(r)
    \/ DetachedContinues(r)
    \/ SetSessionId(r)
    \/ Return(r)
    \/ Save(r)

DetachSpec == DetachInit /\ [][DetachNext]_vars

\* Where an operation stands in the order of a request's operations.
Positions(q, e) == {i \in DOMAIN q.ops : q.ops[i] = e}

\* At most one store.get, before ctx.next() is invoked; exactly one store.set,
\* after ctx.next() has returned; every store.delete before the store.set; no
\* operation issued while another is in flight.
Ordered(q) ==
  /\ Cardinality(Positions(q, "get")) <= 1
  /\ \A g \in Positions(q, "get"), n \in Positions(q, "next") : g < n
  /\ Cardinality(Positions(q, "set")) = 1
  /\ \A t \in Positions(q, "returned"), s \in Positions(q, "set") : t < s
  /\ \A d \in Positions(q, "delete"), s \in Positions(q, "set") : d < s
  /\ ~q.overlapped

\* C27 as stated: the store operations of every request that was responded to
\* are sequential and ordered: get before next(), deletes before the set, one
\* set after next() returned, never two in flight.
C27_AsStated == \A r \in Requests : Responded(req[r]) => Ordered(req[r])

\* C27, for handlers that await what they call: the store operations of a
\* responded request whose handler awaited every login() and logout() are
\* sequential and ordered.
C27_AwaitedOrdered ==
  \A r \in Requests : Responded(req[r]) /\ req[r].detached = "none" => Ordered(req[r])

\* A request with the session's cookie whose handler awaited login() and then
\* changed ctx.state.sessionId: get, next(), delete, return, delete, set, and
\* then the cookie.
C27_Witness ==
  \E r \in Requests :
    /\ Responded(req[r]) /\ req[r].detached = "none"
    /\ req[r].ops = <<"get", "next", "delete", "returned", "delete", "set", "cookie">>

\* C28 as stated: for every completed request the data of the record passed to
\* store.set is ctx.state.session as the handler left it, so every write the
\* handler made reaches the store, also after login() or logout().
C28_AsStated ==
  \A r \in Requests :
    Responded(req[r]) => Persisted(req[r]).data = req[r].ctxSession

\* C28, while ctx.state.session is storedSession.data (the handler did not
\* call logout(), or called login() after it): the persisted data is
\* ctx.state.session as the handler left it.
C28_LinkedDataPersisted ==
  \A r \in Requests :
    Responded(req[r]) /\ req[r].linked => Persisted(req[r]).data = req[r].ctxSession

\* A handler logged in and then wrote a key: the key is in the persisted data.
C28_Witness ==
  \E r \in Requests :
    LET q == req[r] IN
    /\ Responded(q) /\ q.calledLogin /\ ~q.calledLogout /\ q.op = "return"
    /\ q.written = {"a"} /\ q.loginData = EmptyMap
    /\ "a" \in DOMAIN q.ctxSession /\ "a" \in DOMAIN Persisted(q).data

\* A handler logged out and then wrote a key: the key is not persisted.
C28_LostAfterLogout ==
  \E r \in Requests :
    LET q == req[r] IN
    /\ Responded(q) /\ q.calledLogout /\ ~q.linked
    /\ q.written = {"a"} /\ "a" \in DOMAIN q.ctxSession
    /\ Persisted(q).data = EmptyMap

\* The IDs a responded request generated and gave up again.
Superseded(q) == (q.issuedFrom..(nextId - 1)) \ {q.sessionId}

C30_CookieAfterSave ==
  \A r \in Requests :
    LET q == req[r] IN
    /\ q.responseCookie # EmptyMap
       => /\ q.error = "none" /\ q.sets = 1
          /\ q.responseCookie.value = q.setKey /\ StoreHas(store, q.setKey)
          /\ \A c \in Positions(q, "cookie") : \E s \in Positions(q, "set") : s < c
    /\ Positions(q, "cookie") # {} => q.responseCookie # EmptyMap
    /\ q.error = "set" => q.responseCookie = EmptyMap /\ q.setCookie = NoId

\* The store.set of a request with the session's cookie failed, after a
\* rotation that had already deleted the record: no cookie, nothing stored.
C30_Witness ==
  \E r \in Requests :
    LET q == req[r] IN
    /\ q.pc = "failed" /\ q.error = "set" /\ q.cookie = OldId /\ q.rotated
    /\ q.responseCookie = EmptyMap /\ ~StoreHas(store, q.setKey)

\* ------------------------------------------- C31: flash under overlapping requests

\* A store that serialises its values, holding one session with a flash
\* value an earlier request staged once.
FlashRaceInit ==
  /\ trackUserAgent = FALSE
  /\ trackIp = FALSE
  /\ resolvers = NoResolvers
  /\ sharing = FALSE
  /\ tokenOptions = NoTokens
  /\ now = 0
  /\ cookieOptions = NoCookieOptions
  /\ ipHeader = Unset
  /\ store = [i \in {OldId} |->
                [data |-> [a |-> "x"], flash |-> [k |-> "x"], userId |-> "alice",
                 lastSeenAt |-> 0, ua |-> Undef, ip |-> Undef]]
  /\ nextId = 1
  /\ req = [r \in Overlapping |-> IdleRequest]
  /\ hist = EmptyMap
  /\ loggedInFrom = {}

\* Each of the two requests runs the middleware once, its handler reading and
\* staging flash, its steps interleaved with the other's at every await.
FlashRaceNext ==
  \E r \in Overlapping :
    \/ ReceiveOverlapping(r)
    \/ Hydrate(r)
    \/ FlashGet(r)
    \/ FlashSet(r)
    \/ Return(r)
    \/ Save(r)

FlashRaceSpec == FlashRaceInit /\ [][FlashRaceNext]_vars

\* flash(k) returned the stored value in this request.
Delivered(q, k) == k \in q.got

\* The request looked the session up after the other's store.set.
LookedUpAfter(q, p) == p.setAt > 0 /\ q.getAt >= p.setAt

\* C31 as stated: under any interleaving of two requests on the session that
\* do not stage the key again, the value staged once is returned by flash(k)
\* in at most one of them.
C31_AsStated ==
  \A r \in Overlapping, o \in Overlapping :
    r # o /\ "k" \notin DOMAIN req[r].newFlash /\ "k" \notin DOMAIN req[o].newFlash
      => ~(Delivered(req[r], "k") /\ Delivered(req[o], "k"))

\* C31, for requests in sequence: a request that looks the session up after
\* the store.set of a request that read the value, and did not stage it again,
\* is not given the value.
C31_OnceInSequence ==
  \A r \in Overlapping, o \in Overlapping :
    LET q == req[r]
        p == req[o]
    IN r # o /\ Delivered(p, "k") /\ "k" \notin DOMAIN p.newFlash /\ LookedUpAfter(q, p)
       => ~Delivered(q, "k") /\ "k" \notin DOMAIN q.preFlash

\* One request read the value and saved; the other, arriving afterwards with
\* the same cookie, asked for it and got undefined.
C31_Witness ==
  \E r \in Overlapping, o \in Overlapping :
    LET q == req[r]
        p == req[o]
    IN /\ r # o /\ Delivered(p, "k") /\ "k" \notin DOMAIN p.newFlash
       /\ LookedUpAfter(q, p) /\ q.cookie = OldId /\ q.reads["k"] > 0
       /\ ~Delivered(q, "k")

\* ------------------------------------------- C32: flash across login and logout

C32_SurvivesLogin ==
  \E r \in Requests :
    LET q == req[r] IN
    /\ Responded(q) /\ q.calledLogin /\ ~q.calledLogout /\ q.cookie = OldId
    /\ q.setKey # OldId /\ Persisted(q).flash = [k |-> "x"]

\* ------------------------------------------ C33: an invalidated session

\* The lookup found a record whose User-Agent differs and ended the session.
Invalidated(q) == q.pc \in {"handler", "post", "done"} /\ q.found = "invalid"

\* C33: when the User-Agent check ends a session, the store's resolveUser is
\* not called, an explicit resolveUser is called with undefined and the empty
\* data, ctx.state.userId stays undefined, and ctx.state.user is set only to
\* what the explicit resolver returned for these arguments.
C33_InvalidatedNeverAuthenticates ==
  \A r \in Requests :
    LET q == req[r] IN
    Invalidated(q)
      => /\ q.invoked # "store"
         /\ q.resolvedWith.userId = Undef /\ q.resolvedWith.data = EmptyMap
         /\ q.resolvedWith.called <=> resolvers.explicit
         /\ q.userId = Undef
         /\ q.user # Undef => q.invoked = "explicit" /\ q.user = q.result

\* With both resolvers present, a request presents the cookie of alice's
\* session from another User-Agent: the explicit resolver was called with
\* nothing of the record, the store's not at all.
C33_Witness ==
  \E r \in Requests :
    LET q == req[r] IN
    /\ Invalidated(q) /\ resolvers.explicit /\ resolvers.store
    /\ q.cookie = OldId /\ q.presented.userId = "alice" /\ q.currentUa = "Firefox"
    /\ q.invoked = "explicit" /\ q.resolvedWith.called /\ q.userId = Undef

\* ------------------------------------------ C34: writes before the save

\* The request found its session and has not saved, and the record is still
\* stored under the ID it found it under.
Unsaved(q) ==
  /\ q.pc \in {"handler", "post"} /\ q.found \in {"current", "legacy"}
  /\ StoreHas(store, q.initialSessionId)

\* What store.get(id) returns to any request at this moment.
Observable(id) == StoreGet(store, id)

\* C34 as stated: until a request's store.set, what store.get returns for its
\* session is the record as the request found it, whatever its handler wrote
\* to ctx.state.session.
C34_AsStated ==
  \A r \in Requests :
    Unsaved(req[r]) => Observable(req[r].initialSessionId) = req[r].presented

\* C34, for a store that serialises its values (Deno KV, kvdex): until a
\* request's store.set, what store.get returns for its session is the record
\* as the request found it.
C34_IsolatedWhenSerialised ==
  \A r \in Requests :
    Unsaved(req[r]) /\ ~sharing
      => Observable(req[r].initialSessionId) = req[r].presented

\* Over a serialising store a handler wrote a key and returned; the store
\* still holds the record as it was found.
C34_Witness ==
  \E r \in Requests :
    LET q == req[r] IN
    /\ Unsaved(q) /\ ~sharing /\ q.pc = "post" /\ q.found = "current"
    /\ q.written = {"a"} /\ q.ctxSession # q.presented.data
    /\ Observable(q.initialSessionId) = q.presented

\* Over a MemorySessionStorage a handler wrote a key and has not returned;
\* the store holds the written value.
C34_SeenBeforeSave ==
  \E r \in Requests :
    LET q == req[r] IN
    /\ Unsaved(q) /\ sharing /\ q.pc = "handler" /\ q.found = "current"
    /\ q.written = {"a"} /\ Observable(q.initialSessionId).data = q.ctxSession
    /\ q.ctxSession # q.presented.data

\* ------------------------------------------ C35: createdAt of a kvdex document

\* A KvDexSessionStorage over an empty collection, with or without
\* expireAfter; nothing has been set yet.
KvDexInit ==
  /\ trackUserAgent = FALSE
  /\ trackIp = FALSE
  /\ resolvers = NoResolvers
  /\ sharing = FALSE
  /\ tokenOptions = NoTokens
  /\ now = 0
  /\ cookieOptions = NoCookieOptions
  /\ ipHeader = Unset
  /\ store = EmptyMap
  /\ nextId = 1
  /\ req = [r \in Requests |-> IdleRequest]
  /\ \E e \in {Unset, {1}} :
       hist = [expireAfter |-> e, first |-> EmptyMap, latest |-> EmptyMap]
  /\ loggedInFrom = {}

\* What is known of an ID since its document was last removed: the time of
\* the first set and the payload of the latest.
Noted(h, id, t, payload) ==
  [h EXCEPT !.first = IF id \in DOMAIN @ THEN @ ELSE Put(@, id, t),
            !.latest = Put(@, id, payload)]

Forgotten(h, id) ==
  [h EXCEPT !.first = [x \in (DOMAIN @) \ {id} |-> @[x]],
            !.latest = [x \in (DOMAIN @) \ {id} |-> @[x]]]

\* store.set(id, payload)
KvDexSetCall ==
  /\ \E id \in AdapterIds, v \in AdapterValues :
       /\ store' = KvDexSet(store, id, v, now, hist.expireAfter)
       /\ hist' = Noted(hist, id, now, v)
  /\ UNCHANGED <<nextId, trackUserAgent, trackIp, resolvers, sharing, tokenOptions, now, cookieOptions, ipHeader, req,
                 loggedInFrom>>

\* store.delete(id)
KvDexDeleteCall ==
  /\ \E id \in AdapterIds :
       /\ store' = KvDexDelete(store, id)
       /\ hist' = Forgotten(hist, id)
  /\ UNCHANGED <<nextId, trackUserAgent, trackIp, resolvers, sharing, tokenOptions, now, cookieOptions, ipHeader, req,
                 loggedInFrom>>

\* expireIn: once its time has run out, Deno KV removes the document, at a
\* moment of its own choosing.
KvExpire ==
  /\ hist.expireAfter # Unset
  /\ \E id \in DOMAIN store :
       /\ now >= store[id].expiresAt
       /\ store' = KvDexDelete(store, id)
       /\ hist' = Forgotten(hist, id)
  /\ UNCHANGED <<nextId, trackUserAgent, trackIp, resolvers, sharing, tokenOptions, now, cookieOptions, ipHeader, req,
                 loggedInFrom>>

KvDexNext == KvDexSetCall \/ KvDexDeleteCall \/ KvExpire \/ Tick

KvDexSpec == KvDexInit /\ [][KvDexNext]_vars

\* C35: after any sets on an ID since its document was last removed, the
\* document's createdAt is the time of the first of them, its data the payload
\* of the latest, and its updatedAt is not earlier than its createdAt.
C35_CreatedAtStable ==
  \A id \in AdapterIds :
    /\ id \in DOMAIN store <=> id \in DOMAIN hist.first
    /\ id \in DOMAIN store
       => /\ store[id].createdAt = hist.first[id]
          /\ store[id].data = hist.latest[id]
          /\ store[id].updatedAt >= store[id].createdAt

\* A document set at time 0 and set again, with another payload, at time 2.
C35_Witness ==
  \E id \in AdapterIds :
    /\ id \in DOMAIN store /\ store[id].createdAt = 0 /\ store[id].updatedAt = 2
    /\ store[id].data = [b |-> "y"] /\ hist.first[id] = 0

\* ------------------------------------------ C36: the stores' resolveUser

\* The keys users are stored under, the IDs sessions name them by, and their
\* records; a realId may be another user's key.  UserKeyOrder is the order of
\* the keys in the collection.
UserKeyOrder == <<"k1", "k2">>
UserKeys == {UserKeyOrder[i] : i \in DOMAIN UserKeyOrder}
UserIds == {"k1", "k2", "u9"}
UserRecords == [realId : {"k1", "u9"}, username : {"alice"}]

\* The versionstamp Deno KV gives a write.
Versionstamps == {"v1", "v2"}

\* [...this.userKeyPrefix, userId], userKeyPrefix || ["users"].
UserKvKey(userKeyPrefix, userId) == <<OrElse(userKeyPrefix, "users"), userId>>

\* A lookup that ignores the configured prefix.
DenoKvResolveUser_DefaultPrefix(kv, userKeyPrefix, userId) ==
  IF <<"users", userId>> \in DOMAIN kv THEN kv[<<"users", userId>>] ELSE NoValue

\* DenoKvSessionStorage.resolveUser: res.value || undefined (a stored user
\* object is truthy).
DenoKvResolveUser(kv, userKeyPrefix, userId) ==
  IF UserKvKey(userKeyPrefix, userId) \in DOMAIN kv
  THEN kv[UserKvKey(userKeyPrefix, userId)] ELSE NoValue

\* findBySecondaryIndex(index, userId): the documents whose value has userId
\* in the indexed field; result[0] is the one with the least key.
IndexedFirst(c, index, userId) ==
  LET hits == {k \in DOMAIN c : c[k].value[index] = userId}
  IN IF hits = {} THEN {}
     ELSE {UserKeyOrder[CHOOSE i \in DOMAIN UserKeyOrder :
                          /\ UserKeyOrder[i] \in hits
                          /\ \A j \in 1..(i - 1) : UserKeyOrder[j] \notin hits]}

\* { ...value, __id__: validDoc.id, __versionstamp__: validDoc.versionstamp }
UserWithId(c, key) ==
  Put(Put(c[key].value, "__id__", key), "__versionstamp__", c[key].versionstamp)

\* A lookup by primary key whatever userIndex says.
KvDexResolveUser_PrimaryOnly(c, userIndex, userId) ==
  IF userId \in DOMAIN c THEN UserWithId(c, userId) ELSE NoValue

\* KvDexSessionStorage.resolveUser: by the secondary index when userIndex is
\* set, else by primary key; undefined when nothing is found.
KvDexResolveUser(c, userIndex, userId) ==
  LET found == IF userIndex # Unset /\ userIndex # {""}
               THEN IndexedFirst(c, CHOOSE i \in userIndex : TRUE, userId)
               ELSE {userId} \cap DOMAIN c
  IN IF found = {} THEN NoValue ELSE UserWithId(c, CHOOSE k \in found : TRUE)

\* A store with its user option (userKeyPrefix, userIndex), left out or given,
\* over an empty backend; nothing has been resolved.
UserInit ==
  /\ trackUserAgent = FALSE
  /\ trackIp = FALSE
  /\ resolvers = NoResolvers
  /\ sharing = FALSE
  /\ tokenOptions = NoTokens
  /\ now = 0
  /\ cookieOptions = NoCookieOptions
  /\ ipHeader = Unset
  /\ store = EmptyMap
  /\ nextId = 1
  /\ req = [r \in Requests |-> IdleRequest]
  /\ \E a \in {"denokv", "kvdex"}, given \in BOOLEAN :
       hist = [adapter |-> a,
               option |-> IF ~given THEN Unset
                          ELSE IF a = "denokv" THEN {"members"} ELSE {"realId"},
               op |-> "none", userId |-> Undef, result |-> NoValue]
  /\ loggedInFrom = {}

\* The application stores a user: kv.set([prefix, key], user) under either
\* prefix, db.users.set(key, user).
UserPut ==
  /\ \E k \in UserKeys, u \in UserRecords, p \in {"users", "members"}, v \in Versionstamps :
       store' = IF hist.adapter = "denokv" THEN Put(store, <<p, k>>, u)
                ELSE Put(store, k, [versionstamp |-> v, value |-> u])
  /\ hist' = [hist EXCEPT !.op = "put"]
  /\ UNCHANGED <<nextId, trackUserAgent, trackIp, resolvers, sharing, tokenOptions, now, cookieOptions, ipHeader, req,
                 loggedInFrom>>

\* store.resolveUser(userId)
ResolveUserCall ==
  /\ \E id \in UserIds :
       hist' = [hist EXCEPT !.op = "resolveUser", !.userId = id,
                  !.result = IF hist.adapter = "denokv"
                             THEN DenoKvResolveUser(store, hist.option, id)
                             ELSE KvDexResolveUser(store, hist.option, id)]
  /\ UNCHANGED <<store, nextId, trackUserAgent, trackIp, resolvers, sharing, tokenOptions, now, cookieOptions, ipHeader, req,
                 loggedInFrom>>

UserNext == UserPut \/ ResolveUserCall

UserSpec == UserInit /\ [][UserNext]_vars

\* The keys of the stored users resolveUser(userId) is to find.
Sought(userId) ==
  IF hist.adapter = "denokv"
  THEN {k \in DOMAIN store :
          k = <<(IF hist.option = Unset THEN "users" ELSE "members"), userId>>}
  ELSE IF hist.option = Unset THEN {k \in DOMAIN store : k = userId}
  ELSE {k \in DOMAIN store : store[k].value.realId = userId}

\* C36: resolveUser(userId) returns undefined exactly when no user is stored
\* for userId: under [userKeyPrefix, userId] (prefix ["users"] when left out)
\* with DenoKvSessionStorage, under the primary key userId, or with userId in
\* the field userIndex names, with KvDexSessionStorage; otherwise it returns
\* the stored user, with kvdex its fields together with __id__, the key the
\* user is stored under.
C36_StoreResolveUser ==
  hist.op = "resolveUser"
    => /\ hist.result = NoValue <=> Sought(hist.userId) = {}
       /\ hist.result # NoValue /\ hist.adapter = "denokv"
          => \E k \in Sought(hist.userId) : hist.result = store[k]
       /\ hist.result # NoValue /\ hist.adapter = "kvdex"
          => \E k \in Sought(hist.userId) :
               /\ hist.result["__id__"] = k
               /\ \A f \in DOMAIN store[k].value : hist.result[f] = store[k].value[f]

\* With userIndex "realId", the user stored under k2 was resolved by its
\* realId k1, the key of another stored user.
C36_Witness ==
  /\ hist.op = "resolveUser" /\ hist.adapter = "kvdex" /\ hist.option = {"realId"}
  /\ hist.userId = "k1" /\ "k1" \in DOMAIN store /\ "k2" \in DOMAIN store
  /\ store["k1"].value.realId = "u9" /\ store["k2"].value.realId = "k1"
  /\ hist.result["__id__"] = "k2" /\ hist.result["username"] = "alice"

====
